---- MODULE Spec2Model ----
(***************************************************************************)
(* Session store, router and their concurrency, modelled from              *)
(* backend/memory.py, backend/router.py and backend/langgraph_workflow.py. *)
(*                                                                         *)
(* Texts are modelled by their length (a natural number): the only thing   *)
(* the store does to a text is cut it to a maximum length.                 *)
(* Python's None is "None" for a string-valued field and <<>> for a        *)
(* dict-valued field (a present dict d is <<d>>).                          *)
(***************************************************************************)
EXTENDS Integers, Sequences, FiniteSets, TLC

(***************************************************************************)
(* Bounds of the model                                                     *)
(***************************************************************************)
\* MAX_MESSAGES_PER_SESSION is 50 in memory.py:14.  It is scaled down here so
\* that histories longer than the cap are reached; every formula is stated in
\* terms of the name, never of the number.
MAX_MESSAGES_PER_SESSION == 2
\* calls made on the store in one behaviour of Spec / SpecHistory
MaxCalls == 4
\* clock advances in one behaviour of Spec
MaxTicks == 2
\* request threads running concurrently
NThreads == 4
MaxRouterCalls == 2

(***************************************************************************)
(* Program constants                                                       *)
(***************************************************************************)
SESSION_TTL_SECONDS == 3600
USER_TEXT_LIMIT == 10000
AI_TEXT_LIMIT == 50000

SessionIds == {"s1", "s2"}
Threads == 1..NThreads
None == "None"
\* no query passed
NoRequest == [query |-> << >>, forced |-> "None"]
\* no call of the classification model
NoResponse == [kind |-> "none", route |-> "-", confidence |-> "-",
               reason |-> << >>]
Routes == {"sql", "csv", "pdf", "math"}
\* lengths of the texts handed to add_user / add_ai: below both limits and
\* above both
TextLens == {7, 50001}
\* the values handed to set_route by the store's sequential clients
RouteInputs == {"sql", "pdf"}
\* a pending-disambiguation dict and a result-context dict
PendingInputs == {[original_query |-> "q1", ambiguous_term |-> "quantity"]}
ContextInputs == {[type |-> "single_result"]}
\* seconds by which the clock advances in one step
TickDeltas == {1, SESSION_TTL_SECONDS}

VARIABLES
    sessions,   \* SharedMemory._sessions: session id -> SessionMemory
    now,        \* time.time()
    nticks,     \* number of clock advances so far
    cleanup_thread, \* SharedMemory._cleanup_thread: the identity of a Thread
                \* object, 0 for None
    thread_started, \* the Thread objects that have been started (is_alive())
    running,    \* SharedMemory._running
    call,       \* the call that completed last: [op, sid]
    result,     \* what that call returned
    ncalls,     \* number of calls and cleanup cycles so far
    model_response, \* what the classification model answered during that
                \* call: NoResponse when it was not invoked
    request,    \* the arguments of the call under way or completed last:
                \* the query and the forced route passed to the router, the
                \* arguments of a function of the disambiguator
    nextOid,    \* identity of the next SessionMemory object constructed
    log,        \* per session id: the turns appended since the session was
                \* created or cleared, in the order of the appends
    \* request threads running concurrently (SpecGetSession, SpecAppend,
    \* SpecAccessors)
    tprog,      \* per thread: the call it makes
    tsid,       \* per thread: the session id it passes
    pc,         \* per thread: the statement it executes next
    tref,       \* per thread: the session object get_session returned (its
                \* oid, 0 before)
    lref,       \* per thread: the list object it loaded from self.history
    tmp,        \* per thread: the slice it computed and has not yet stored
    lock,       \* SharedMemory._lock: the thread holding it, 0 when free
    hist_id,    \* per session id: the identity of the list object bound to
                \* self.history
    next_hid    \* identity of the next list object created

callVars == <<call, result, ncalls, model_response, request>>
storeVars == <<sessions, now, nticks, cleanup_thread, thread_started, running,
               callVars, nextOid, log>>
threadVars == <<tprog, tsid, pc, tref, lref, tmp, lock, hist_id, next_hid>>
vars == <<storeVars, threadVars>>

(***************************************************************************)
(* Helpers                                                                 *)
(***************************************************************************)
Min(a, b) == IF a < b THEN a ELSE b

\* seq[-n:] of Python
LastN(seq, n) ==
    IF Len(seq) <= n THEN seq ELSE SubSeq(seq, Len(seq) - n + 1, Len(seq))

\* text[:cap] of Python, on lengths
Truncate(len, cap) == IF len > cap THEN cap ELSE len

HumanMessage(content) == [role |-> "human", content |-> content]
AIMessage(content) == [role |-> "ai", content |-> content]

Without(f, k) == [x \in (DOMAIN f) \ {k} |-> f[x]]

(***************************************************************************)
(* SessionMemory: the methods, as functions from the object (a record) and *)
(* the current time to the object after the call.                          *)
(***************************************************************************)
SessionMemory(oid, t) ==
    [oid |-> oid,
     history |-> << >>,
     last_accessed |-> t,
     last_route |-> None,
     pending_disambiguation |-> << >>,
     last_result_context |-> << >>]

update_access_time(m, t) == [m EXCEPT !.last_accessed = t]

trim_history_keep_first(m) ==
    IF Len(m.history) > MAX_MESSAGES_PER_SESSION
    THEN [m EXCEPT !.history = SubSeq(@, 1, MAX_MESSAGES_PER_SESSION)]
    ELSE m

trim_history(m) ==
    IF Len(m.history) > MAX_MESSAGES_PER_SESSION
    THEN [m EXCEPT !.history = LastN(@, MAX_MESSAGES_PER_SESSION)]
    ELSE m

add_user(m, text, t) ==
    trim_history([update_access_time(m, t) EXCEPT
        !.history = Append(@, HumanMessage(Truncate(text, USER_TEXT_LIMIT)))])

add_ai(m, text, t) ==
    trim_history([update_access_time(m, t) EXCEPT
        !.history = Append(@, AIMessage(Truncate(text, AI_TEXT_LIMIT)))])

\* get() and get_messages() return the history and refresh the access time
get(m, t) == update_access_time(m, t)
get_messages(m, t) == update_access_time(m, t)

clear_keeps_context(m, t) ==
    update_access_time(
        [m EXCEPT !.history = << >>,
                  !.last_route = None,
                  !.pending_disambiguation = << >>], t)

clear(m, t) ==
    update_access_time(
        [m EXCEPT !.history = << >>,
                  !.last_route = None,
                  !.pending_disambiguation = << >>,
                  !.last_result_context = << >>], t)

set_pending_disambiguation(m, data, t) ==
    update_access_time([m EXCEPT !.pending_disambiguation = <<data>>], t)

get_pending_disambiguation(m) == m.pending_disambiguation

clear_pending_disambiguation(m) == [m EXCEPT !.pending_disambiguation = << >>]

has_pending_disambiguation(m) == m.pending_disambiguation # << >>

set_last_result_context(m, context, t) ==
    update_access_time([m EXCEPT !.last_result_context = <<context>>], t)

get_last_result_context(m) == m.last_result_context

set_route(m, route, t) ==
    update_access_time([m EXCEPT !.last_route = route], t)

get_route(m) == m.last_route

is_expired_at_ttl(m, t) == (t - m.last_accessed) >= SESSION_TTL_SECONDS

is_expired(m, t) == (t - m.last_accessed) > SESSION_TTL_SECONDS

(***************************************************************************)
(* SharedMemory, called by one client at a time: every call is one step.   *)
(***************************************************************************)
list_sessions == DOMAIN sessions

Called(op, s) ==
    /\ ncalls < MaxCalls
    /\ ncalls' = ncalls + 1
    /\ call' = [op |-> op, sid |-> s]
    /\ UNCHANGED threadVars

\* cls._cleanup_thread is None or not cls._cleanup_thread.is_alive()
NoCleanupThreadAlive ==
    cleanup_thread = 0 \/ cleanup_thread \notin thread_started

\* SharedMemory._start_cleanup_thread, called by one client at a time
StartCleanupThread ==
    IF NoCleanupThreadAlive
    THEN /\ running' = TRUE
         /\ cleanup_thread' = cleanup_thread + 1
         /\ thread_started' = thread_started \cup {cleanup_thread + 1}
    ELSE UNCHANGED <<running, cleanup_thread, thread_started>>

\* SharedMemory.get_session: starts the cleanup thread when none is alive,
\* then returns the registered session or registers a new one
GetSession(s) ==
    /\ Called("get_session", s)
    /\ StartCleanupThread
    /\ IF s \in DOMAIN sessions
       THEN /\ UNCHANGED <<sessions, nextOid, log>>
       ELSE /\ sessions' = (s :> SessionMemory(nextOid, now)) @@ sessions
            /\ nextOid' = nextOid + 1
            /\ log' = [log EXCEPT ![s] = << >>]
    /\ UNCHANGED <<now, nticks, result,
                   model_response, request>>

\* a method called on the registered session object, which is `after` when
\* the method returns
Method(op, s, after) ==
    /\ s \in DOMAIN sessions
    /\ Called(op, s)
    /\ sessions' = [sessions EXCEPT ![s] = after]
    /\ UNCHANGED <<now, nticks, cleanup_thread, thread_started, running,
                   nextOid, result,
                   model_response, request>>

AddUser(s, text) ==
    /\ Method("add_user", s, add_user(sessions[s], text, now))
    /\ log' = [log EXCEPT ![s] =
                  Append(@, HumanMessage(Truncate(text, USER_TEXT_LIMIT)))]

AddAi(s, text) ==
    /\ Method("add_ai", s, add_ai(sessions[s], text, now))
    /\ log' = [log EXCEPT ![s] =
                  Append(@, AIMessage(Truncate(text, AI_TEXT_LIMIT)))]

Get(s) ==
    /\ Method("get", s, get(sessions[s], now))
    /\ UNCHANGED log

GetMessages(s) ==
    /\ Method("get_messages", s, get_messages(sessions[s], now))
    /\ UNCHANGED log

SetPendingDisambiguation(s, data) ==
    /\ Method("set_pending_disambiguation", s,
              set_pending_disambiguation(sessions[s], data, now))
    /\ UNCHANGED log

GetPendingDisambiguation(s) ==
    /\ Method("get_pending_disambiguation", s, sessions[s])
    /\ UNCHANGED log

ClearPendingDisambiguation(s) ==
    /\ Method("clear_pending_disambiguation", s,
              clear_pending_disambiguation(sessions[s]))
    /\ UNCHANGED log

HasPendingDisambiguation(s) ==
    /\ Method("has_pending_disambiguation", s, sessions[s])
    /\ UNCHANGED log

SetLastResultContext(s, context) ==
    /\ Method("set_last_result_context", s,
              set_last_result_context(sessions[s], context, now))
    /\ UNCHANGED log

GetLastResultContext(s) ==
    /\ Method("get_last_result_context", s, sessions[s])
    /\ UNCHANGED log

\* get_context_summary renders last_result_context; it changes nothing
GetContextSummary(s) ==
    /\ Method("get_context_summary", s, sessions[s])
    /\ UNCHANGED log

SetRoute(s, route) ==
    /\ Method("set_route", s, set_route(sessions[s], route, now))
    /\ UNCHANGED log

GetRoute(s) ==
    /\ Method("get_route", s, sessions[s])
    /\ UNCHANGED log

\* SharedMemory.clear_session: clears the session if it is registered
ClearSession(s) ==
    /\ Called("clear_session", s)
    /\ IF s \in DOMAIN sessions
       THEN /\ sessions' = [sessions EXCEPT ![s] = clear(@, now)]
            /\ log' = [log EXCEPT ![s] = << >>]
       ELSE UNCHANGED <<sessions, log>>
    /\ UNCHANGED <<now, nticks, cleanup_thread, thread_started, running,
                   nextOid, result,
                   model_response, request>>

\* SharedMemory.delete_session
DeleteSession(s) ==
    /\ Called("delete_session", s)
    /\ IF s \in DOMAIN sessions
       THEN /\ sessions' = Without(sessions, s)
            /\ log' = [log EXCEPT ![s] = << >>]
       ELSE UNCHANGED <<sessions, log>>
    /\ UNCHANGED <<now, nticks, cleanup_thread, thread_started, running,
                   nextOid, result,
                   model_response, request>>

\* SharedMemory.list_sessions
ListSessions ==
    /\ Called("list_sessions", "-")
    /\ UNCHANGED <<sessions, log, now, nticks, cleanup_thread, thread_started,
                   running, nextOid, result,
                   model_response, request>>

\* the sessions _cleanup_expired_sessions removes at time t
Expired(t) == {sid \in DOMAIN sessions : is_expired(sessions[sid], t)}

\* One cycle of _cleanup_loop: _cleanup_expired_sessions, under the store
\* lock.  The loop sleeps between cycles; when a cycle falls relative to the
\* other calls is not determined, so a cycle may happen at any time once the
\* thread is alive.
CleanupExpiredSessions ==
    /\ ~NoCleanupThreadAlive /\ running
    /\ Called("cleanup", "-")
    /\ sessions' = [sid \in (DOMAIN sessions) \ Expired(now) |-> sessions[sid]]
    /\ log' = [sid \in SessionIds |->
                  IF sid \in Expired(now) THEN << >> ELSE log[sid]]
    /\ UNCHANGED <<now, nticks, cleanup_thread, thread_started, running,
                   nextOid, result,
                   model_response, request>>

\* time passes
Tick(d) ==
    /\ nticks < MaxTicks
    /\ nticks' = nticks + 1
    /\ now' = now + d
    /\ UNCHANGED <<sessions, log, cleanup_thread, thread_started, running,
                   callVars, nextOid>>
    /\ UNCHANGED threadVars

\* no request thread runs
ThreadsIdle ==
    /\ tprog = [t \in Threads |-> "none"]
    /\ tsid = [t \in Threads |-> "-"]
    /\ pc = [t \in Threads |-> "done"]
    /\ tref = [t \in Threads |-> 0]
    /\ lref = [t \in Threads |-> 0]
    /\ tmp = [t \in Threads |-> << >>]
    /\ lock = 0
    /\ hist_id = [sid \in SessionIds |-> 0]
    /\ next_hid = 1

Init ==
    /\ sessions = << >>
    /\ now = 0
    /\ nticks = 0
    /\ cleanup_thread = 0
    /\ thread_started = {}
    /\ running = FALSE
    /\ call = [op |-> "none", sid |-> "-"]
    /\ result = None
    /\ model_response = NoResponse
    /\ request = NoRequest
    /\ ncalls = 0
    /\ nextOid = 1
    /\ log = [sid \in SessionIds |-> << >>]
    /\ ThreadsIdle

Next ==
    \/ \E s \in SessionIds : GetSession(s)
    \/ \E s \in SessionIds, text \in TextLens : AddUser(s, text)
    \/ \E s \in SessionIds, text \in TextLens : AddAi(s, text)
    \/ \E s \in SessionIds : Get(s)
    \/ \E s \in SessionIds : GetMessages(s)
    \/ \E s \in SessionIds, d \in PendingInputs : SetPendingDisambiguation(s, d)
    \/ \E s \in SessionIds : GetPendingDisambiguation(s)
    \/ \E s \in SessionIds : ClearPendingDisambiguation(s)
    \/ \E s \in SessionIds : HasPendingDisambiguation(s)
    \/ \E s \in SessionIds, c \in ContextInputs : SetLastResultContext(s, c)
    \/ \E s \in SessionIds : GetLastResultContext(s)
    \/ \E s \in SessionIds : GetContextSummary(s)
    \/ \E s \in SessionIds, r \in RouteInputs : SetRoute(s, r)
    \/ \E s \in SessionIds : GetRoute(s)
    \/ \E s \in SessionIds : ClearSession(s)
    \/ \E s \in SessionIds : DeleteSession(s)
    \/ ListSessions
    \/ CleanupExpiredSessions
    \/ \E d \in TickDeltas : Tick(d)

Spec == Init /\ [][Next]_vars

(***************************************************************************)
(* Request threads running concurrently.  A step is what one thread does   *)
(* between two points at which the interpreter may switch threads: one     *)
(* load, one store, one list operation.  The body of `with cls._lock` is   *)
(* one step for the accesses to _sessions, which are all made under the    *)
(* lock; the SessionMemory methods take no lock.  Nothing removes a        *)
(* session in these specifications, so the object a thread holds is the    *)
(* one registered under its session id.                                    *)
(***************************************************************************)
Goto(t, label) == pc' = [pc EXCEPT ![t] = label]

\* the text thread t appends: every thread's is different
TextOf(t) == t

\* _start_cleanup_thread, line 149
GsCheck(t) ==
    /\ pc[t] = "gs_check"
    /\ Goto(t, IF NoCleanupThreadAlive THEN "gs_running" ELSE "gs_lock")
    /\ UNCHANGED <<storeVars, tprog, tsid, tref, lref, tmp, lock, hist_id,
                   next_hid>>

\* line 150
GsSetRunning(t) ==
    /\ pc[t] = "gs_running"
    /\ running' = TRUE
    /\ Goto(t, "gs_new")
    /\ UNCHANGED <<sessions, now, nticks, cleanup_thread, thread_started, callVars, nextOid, log>>
    /\ UNCHANGED <<tprog, tsid, tref, lref, tmp, lock, hist_id, next_hid>>

\* line 151: a new Thread object, not started, is bound to _cleanup_thread
GsNewThread(t) ==
    /\ pc[t] = "gs_new"
    /\ cleanup_thread' = cleanup_thread + 1
    /\ Goto(t, "gs_start")
    /\ UNCHANGED <<sessions, now, nticks, thread_started, running, callVars, nextOid, log>>
    /\ UNCHANGED <<tprog, tsid, tref, lref, tmp, lock, hist_id, next_hid>>

\* Thread.start() raises RuntimeError("threads can only be started once")
\* when the Thread object has been started
ThreadStartRaises(th) == th \in thread_started

\* line 152: cls._cleanup_thread is loaded again and started
GsStart(t) ==
    /\ pc[t] = "gs_start"
    /\ IF ThreadStartRaises(cleanup_thread)
       THEN /\ Goto(t, "raised")
            /\ UNCHANGED thread_started
       ELSE /\ thread_started' = thread_started \cup {cleanup_thread}
            /\ Goto(t, "gs_lock")
    /\ UNCHANGED <<sessions, now, nticks, cleanup_thread, running, callVars, nextOid, log>>
    /\ UNCHANGED <<tprog, tsid, tref, lref, tmp, lock, hist_id, next_hid>>

\* lines 178-181, under the lock
GsLock(t) ==
    /\ pc[t] = "gs_lock"
    /\ lock = 0
    /\ IF tsid[t] \in DOMAIN sessions
       THEN UNCHANGED <<sessions, nextOid, log, hist_id, next_hid>>
       ELSE /\ sessions' = (tsid[t] :> SessionMemory(nextOid, now)) @@ sessions
            /\ nextOid' = nextOid + 1
            /\ log' = [log EXCEPT ![tsid[t]] = << >>]
            /\ hist_id' = [hist_id EXCEPT ![tsid[t]] = next_hid]
            /\ next_hid' = next_hid + 1
    /\ tref' = [tref EXCEPT ![t] = sessions'[tsid[t]].oid]
    /\ Goto(t, IF tprog[t] = "add_user" THEN "au_touch" ELSE "done")
    /\ UNCHANGED <<now, nticks, cleanup_thread, thread_started, running, callVars>>
    /\ UNCHANGED <<tprog, tsid, lref, tmp, lock>>

\* add_user, line 34
AuTouch(t) ==
    /\ pc[t] = "au_touch"
    /\ sessions' = [sessions EXCEPT ![tsid[t]] = update_access_time(@, now)]
    /\ Goto(t, "au_load")
    /\ UNCHANGED <<now, nticks, cleanup_thread, thread_started, running, callVars, nextOid, log>>
    /\ UNCHANGED <<tprog, tsid, tref, lref, tmp, lock, hist_id, next_hid>>

\* line 35: self.history is loaded
AuLoad(t) ==
    /\ pc[t] = "au_load"
    /\ lref' = [lref EXCEPT ![t] = hist_id[tsid[t]]]
    /\ Goto(t, "au_append")
    /\ UNCHANGED <<storeVars, tprog, tsid, tref, tmp, lock, hist_id, next_hid>>

\* line 35: append on the loaded list.  A list that is no longer bound to
\* self.history is read by nobody: the message is in no history.
AuAppend(t) ==
    /\ pc[t] = "au_append"
    /\ IF lref[t] = hist_id[tsid[t]]
       THEN sessions' = [sessions EXCEPT ![tsid[t]].history =
                Append(@, HumanMessage(Truncate(TextOf(t), USER_TEXT_LIMIT)))]
       ELSE UNCHANGED sessions
    /\ log' = [log EXCEPT ![tsid[t]] =
                Append(@, HumanMessage(Truncate(TextOf(t), USER_TEXT_LIMIT)))]
    /\ Goto(t, "tr_check")
    /\ UNCHANGED <<now, nticks, cleanup_thread, thread_started, running, callVars, nextOid>>
    /\ UNCHANGED <<tprog, tsid, tref, lref, tmp, lock, hist_id, next_hid>>

\* _trim_history, line 46
TrCheck(t) ==
    /\ pc[t] = "tr_check"
    /\ Goto(t, IF Len(sessions[tsid[t]].history) > MAX_MESSAGES_PER_SESSION
               THEN "tr_slice" ELSE "done")
    /\ UNCHANGED <<storeVars, tprog, tsid, tref, lref, tmp, lock, hist_id,
                   next_hid>>

\* self.history[-(MAX_MESSAGES_PER_SESSION - 1):]
SliceOneShort(h) == LastN(h, MAX_MESSAGES_PER_SESSION - 1)

\* line 47, right-hand side: self.history[-MAX_MESSAGES_PER_SESSION:]
Slice(h) == LastN(h, MAX_MESSAGES_PER_SESSION)

TrSlice(t) ==
    /\ pc[t] = "tr_slice"
    /\ tmp' = [tmp EXCEPT ![t] = Slice(sessions[tsid[t]].history)]
    /\ Goto(t, "tr_store")
    /\ UNCHANGED <<storeVars, tprog, tsid, tref, lref, lock, hist_id, next_hid>>

\* line 47: the slice, a new list object, is bound to self.history
TrStore(t) ==
    /\ pc[t] = "tr_store"
    /\ sessions' = [sessions EXCEPT ![tsid[t]].history = tmp[t]]
    /\ hist_id' = [hist_id EXCEPT ![tsid[t]] = next_hid]
    /\ next_hid' = next_hid + 1
    /\ tmp' = [tmp EXCEPT ![t] = << >>]
    /\ Goto(t, "done")
    /\ UNCHANGED <<now, nticks, cleanup_thread, thread_started, running, callVars, nextOid, log>>
    /\ UNCHANGED <<tprog, tsid, tref, lref, lock>>

\* clear_session, lines 186-187: the lock is taken
ClLock(t) ==
    /\ pc[t] = "cl_lock"
    /\ lock = 0
    /\ IF tsid[t] \in DOMAIN sessions
       THEN /\ lock' = t
            /\ Goto(t, "cl_history")
       ELSE /\ UNCHANGED lock
            /\ Goto(t, "done")
    /\ UNCHANGED <<storeVars, tprog, tsid, tref, lref, tmp, hist_id, next_hid>>

\* clear, line 66: a new empty list is bound to self.history
ClHistory(t) ==
    /\ pc[t] = "cl_history"
    /\ sessions' = [sessions EXCEPT ![tsid[t]].history = << >>]
    /\ log' = [log EXCEPT ![tsid[t]] = << >>]
    /\ hist_id' = [hist_id EXCEPT ![tsid[t]] = next_hid]
    /\ next_hid' = next_hid + 1
    /\ Goto(t, "cl_route")
    /\ UNCHANGED <<now, nticks, cleanup_thread, thread_started, running, callVars, nextOid>>
    /\ UNCHANGED <<tprog, tsid, tref, lref, tmp, lock>>

\* one assignment of clear to a field of the session
ClAssign(t, label, after, next) ==
    /\ pc[t] = label
    /\ sessions' = [sessions EXCEPT ![tsid[t]] = after]
    /\ Goto(t, next)
    /\ UNCHANGED <<now, nticks, cleanup_thread, thread_started, running, callVars, nextOid, log>>
    /\ UNCHANGED <<tprog, tsid, tref, lref, tmp, hist_id, next_hid>>

\* line 67
ClRoute(t) ==
    /\ ClAssign(t, "cl_route",
                [sessions[tsid[t]] EXCEPT !.last_route = None], "cl_pending")
    /\ UNCHANGED lock

\* line 68
ClPending(t) ==
    /\ ClAssign(t, "cl_pending",
                [sessions[tsid[t]] EXCEPT !.pending_disambiguation = << >>],
                "cl_context")
    /\ UNCHANGED lock

\* line 69
ClContext(t) ==
    /\ ClAssign(t, "cl_context",
                [sessions[tsid[t]] EXCEPT !.last_result_context = << >>],
                "cl_touch")
    /\ UNCHANGED lock

\* line 70, and the lock is released
ClTouch(t) ==
    /\ ClAssign(t, "cl_touch", update_access_time(sessions[tsid[t]], now),
                "done")
    /\ lock' = 0

\* the first statement of the call a thread makes
Entry(prog) == IF prog = "clear_session" THEN "cl_lock" ELSE "gs_check"

\* the store as the process starts: no session, no cleanup thread
FreshStore ==
    /\ sessions = << >>
    /\ nextOid = 1
    /\ cleanup_thread = 0
    /\ thread_started = {}
    /\ running = FALSE
    /\ log = [sid \in SessionIds |-> << >>]
    /\ hist_id = [sid \in SessionIds |-> 0]
    /\ next_hid = 1

\* the store after get_session("s1") and, with route # None, set_route: the
\* session is registered and empty, the cleanup thread runs
StoreWithEmptySession(route) ==
    /\ sessions = ("s1" :> set_route(SessionMemory(1, 0), route, 0))
    /\ nextOid = 2
    /\ cleanup_thread = 1
    /\ thread_started = {1}
    /\ running = TRUE
    /\ log = [sid \in SessionIds |-> << >>]
    /\ hist_id = [sid \in SessionIds |-> IF sid = "s1" THEN 1 ELSE 0]
    /\ next_hid = 2

NoCallYet ==
    /\ now = 0
    /\ nticks = 0
    /\ call = [op |-> "none", sid |-> "-"]
    /\ result = None
    /\ model_response = NoResponse
    /\ request = NoRequest
    /\ ncalls = 0

ThreadsStart ==
    /\ pc = [t \in Threads |-> Entry(tprog[t])]
    /\ tref = [t \in Threads |-> 0]
    /\ lref = [t \in Threads |-> 0]
    /\ tmp = [t \in Threads |-> << >>]
    /\ lock = 0

\* NThreads threads call get_session concurrently as the process starts
InitGetSession ==
    /\ NoCallYet
    /\ FreshStore
    /\ tprog = [t \in Threads |-> "get_session"]
    /\ tsid \in [Threads -> SessionIds]
    /\ ThreadsStart

NextGetSession ==
    \E t \in Threads :
        \/ GsCheck(t)
        \/ GsSetRunning(t)
        \/ GsNewThread(t)
        \/ GsStart(t)
        \/ GsLock(t)

SpecGetSession == InitGetSession /\ [][NextGetSession]_vars

\* NThreads threads each call get_session("s1").add_user(text) on an empty
\* registered session
InitAppend ==
    /\ NoCallYet
    /\ StoreWithEmptySession(None)
    /\ tprog = [t \in Threads |-> "add_user"]
    /\ tsid = [t \in Threads |-> "s1"]
    /\ ThreadsStart

NextAppend ==
    \E t \in Threads :
        \/ GsCheck(t)
        \/ GsLock(t)
        \/ AuTouch(t)
        \/ AuLoad(t)
        \/ AuAppend(t)
        \/ TrCheck(t)
        \/ TrSlice(t)
        \/ TrStore(t)

SpecAppend == InitAppend /\ [][NextAppend]_vars

\* NThreads threads each call get_session("s1").add_user(text) as the
\* process starts: the session is not registered yet, no cleanup thread runs
InitFirstAppends ==
    /\ NoCallYet
    /\ FreshStore
    /\ tprog = [t \in Threads |-> "add_user"]
    /\ tsid = [t \in Threads |-> "s1"]
    /\ ThreadsStart

NextFirstAppends ==
    \E t \in Threads :
        \/ GsCheck(t)
        \/ GsSetRunning(t)
        \/ GsNewThread(t)
        \/ GsStart(t)
        \/ GsLock(t)
        \/ AuTouch(t)
        \/ AuLoad(t)
        \/ AuAppend(t)
        \/ TrCheck(t)
        \/ TrSlice(t)
        \/ TrStore(t)

SpecFirstAppends == InitFirstAppends /\ [][NextFirstAppends]_vars

\* NThreads threads each call get_session("s1").add_user(text) or
\* clear_session("s1") on a registered session whose last_route is set
InitAccessors ==
    /\ NoCallYet
    /\ StoreWithEmptySession("sql")
    /\ tprog \in [Threads -> {"add_user", "clear_session"}]
    /\ tsid = [t \in Threads |-> "s1"]
    /\ ThreadsStart

NextAccessors ==
    \E t \in Threads :
        \/ GsCheck(t)
        \/ GsLock(t)
        \/ AuTouch(t)
        \/ AuLoad(t)
        \/ AuAppend(t)
        \/ TrCheck(t)
        \/ TrSlice(t)
        \/ TrStore(t)
        \/ ClLock(t)
        \/ ClHistory(t)
        \/ ClRoute(t)
        \/ ClPending(t)
        \/ ClContext(t)
        \/ ClTouch(t)

SpecAccessors == InitAccessors /\ [][NextAccessors]_vars

(***************************************************************************)
(* The router: router.py and the router node of langgraph_workflow.py.     *)
(* A text is a sequence of words; "kw in text.lower()" holds when a word   *)
(* of the text, lowered, is kw.  The keyword tables are cut down to two    *)
(* entries each, in the order of the source.                               *)
(***************************************************************************)
META_PATTERNS == <<"last question", "what did i ask">>
MATH_ROUTE_KEYWORDS == <<"calculate", "sqrt">>
CSV_ROUTE_KEYWORDS == <<"zone_name", "driver">>
SQL_AMBIGUOUS_TERMS == <<"quantity", "date">>
CSV_AMBIGUOUS_TERMS == <<"duration", "time">>
NO_INDICATORS == << >>
FOLLOW_UP_INDICATORS ==
    <<"follow-up", "pronoun", "refer", "previous", "context", "vague">>
ClosedRoutes == Routes \cup {"out_of_scope"}

\* str.lower() on the words in use
Lower(w) ==
    CASE w = "Quantity" -> "quantity"
      [] w = "SQRT" -> "sqrt"
      [] w = "Last Question" -> "last question"
      [] w = "Pronoun" -> "pronoun"
      [] OTHER -> w

\* kw in text.lower()
Contains(text, kw) == \E i \in 1..Len(text) : Lower(text[i]) = kw

\* any(kw in text.lower() for kw in table)
AnyIn(table, text) == \E i \in 1..Len(table) : Contains(text, table[i])

\* one query without any keyword, and queries that meet the tables in
\* pairs, so that the order of the checks shows
Queries == {<<"weather">>,
            <<"driver", "SQRT">>,
            <<"Quantity", "SQRT">>,
            <<"Quantity", "driver">>,
            <<"time", "Quantity">>,
            <<"time">>,
            <<"SQRT", "Last Question">>,
            <<"Last Question", "weather">>}
ForcedRoutes == {None, "csv", "bogus"}
\* the session of the requests that are followed
RouterSessions == {"s1"}

\* The answer of the classification model.  kind: the call raised
\* ("error"), the content is not JSON ("unparseable"), it is JSON but not an
\* object ("not_object"), or it is an object whose three fields are as
\* given: Missing for an absent key, JsonNull for a value that is no string.
Missing == "<missing>"
JsonNull == "<null>"
RespRoutes == {"pdf", "out_of_scope", "clarify", "meta", Missing, JsonNull}
RespConfidences == {"high", "certain", Missing}
RespReasons == {<<"uses", "a", "Pronoun">>, <<Missing>>, <<JsonNull>>}
ModelResponses ==
    {[kind |-> k, route |-> "-", confidence |-> "-", reason |-> << >>] :
        k \in {"error", "unparseable", "not_object"}}
    \cup [kind : {"object"}, route : RespRoutes,
          confidence : RespConfidences, reason : RespReasons]

NoContent == [kind |-> "none", text |-> 0]
NoRet == [route |-> "-", confidence |-> "-", reason |-> << >>]

\* handle_meta_question, on the registered session m
handle_meta_question(query, m, t) ==
    IF AnyIn(META_PATTERNS, query)
    THEN LET after == get_messages(m, t)
             user_questions ==
                 SelectSeq(after.history, LAMBDA msg : msg.role = "human")
         IN  [matched |-> TRUE,
              session |-> after,
              content |->
                  IF user_questions # << >>
                  THEN [kind |-> "last_question",
                        text |-> user_questions[Len(user_questions)].content]
                  ELSE [kind |-> "first_question", text |-> 0]]
    ELSE [matched |-> FALSE, session |-> m, content |-> NoContent]

detect_route_ambiguous_first(query) ==
    IF AnyIn(SQL_AMBIGUOUS_TERMS, query) THEN "sql"
    ELSE IF AnyIn(CSV_AMBIGUOUS_TERMS, query) THEN "csv"
    ELSE IF AnyIn(MATH_ROUTE_KEYWORDS, query) THEN "math"
    ELSE IF AnyIn(CSV_ROUTE_KEYWORDS, query) THEN "csv"
    ELSE None

detect_route_from_column_terms(query) ==
    IF AnyIn(MATH_ROUTE_KEYWORDS, query) THEN "math"
    ELSE IF AnyIn(CSV_ROUTE_KEYWORDS, query) THEN "csv"
    ELSE IF AnyIn(SQL_AMBIGUOUS_TERMS, query) THEN "sql"
    ELSE IF AnyIn(CSV_AMBIGUOUS_TERMS, query) THEN "csv"
    ELSE None

Returned(m, route, confidence, reason) ==
    [exc |-> "none", session |-> m,
     ret |-> [route |-> route, confidence |-> confidence, reason |-> reason]]

Raised(m, exc) == [exc |-> exc, session |-> m, ret |-> NoRet]

ClassifyBodyContextFirst(query, m, response, t) ==
    IF get_route(m) # None
    THEN Returned(get_messages(m, t), get_route(m), "medium",
                  <<"follow-up to previous", get_route(m)>>)
    ELSE IF detect_route_from_column_terms(query) # None
    THEN Returned(set_route(m, detect_route_from_column_terms(query), t),
                  detect_route_from_column_terms(query), "high",
                  <<"column term of", detect_route_from_column_terms(query)>>)
    ELSE Raised(get_messages(m, t), "Exception")

\* the try block of classify_query: what it returns, or the exception that
\* leaves it
ClassifyBody(query, m, response, t) ==
    LET route_from_terms == detect_route_from_column_terms(query) IN
    IF route_from_terms # None
    THEN Returned(set_route(m, route_from_terms, t), route_from_terms, "high",
                  <<"column term of", route_from_terms>>)
    ELSE
    LET last_route == get_route(m)
        after == get_messages(m, t)
    IN
    IF response.kind = "error" THEN Raised(after, "Exception")
    ELSE IF response.kind = "unparseable" THEN Raised(after, "JSONDecodeError")
    ELSE IF response.kind = "not_object" THEN Raised(after, "AttributeError")
    ELSE
    LET given_route == IF response.route = Missing
                       THEN "out_of_scope" ELSE response.route
        given_confidence == IF response.confidence = Missing
                            THEN "low" ELSE response.confidence
        given_reason == IF response.reason = <<Missing>>
                        THEN << >> ELSE response.reason
        legacy == IF given_route = "clarify" THEN "out_of_scope"
                  ELSE given_route
        valid == legacy \in ClosedRoutes
        route == IF valid THEN legacy ELSE "out_of_scope"
        confidence == IF valid THEN given_confidence ELSE "low"
        reason == IF valid THEN given_reason
                  ELSE <<"invalid route returned">>
    IN
    IF route = "out_of_scope" /\ last_route # None
    THEN IF reason = <<JsonNull>>
         THEN Raised(after, "AttributeError")
         ELSE IF AnyIn(FOLLOW_UP_INDICATORS, reason)
         THEN Returned(after, last_route, "medium",
                       <<"follow-up to previous", last_route>>)
         ELSE Returned(after, route, confidence, reason)
    ELSE Returned(after, route, confidence, reason)

ParseError == [route |-> "out_of_scope", confidence |-> "low",
               reason |-> <<"could not parse router response">>]
RouterError == [route |-> "out_of_scope", confidence |-> "low",
                reason |-> <<"router error">>]

classify_query_json_errors_only(query, m, response, t) ==
    LET body == ClassifyBody(query, m, response, t) IN
    IF body.exc = "none"
    THEN [raised |-> FALSE, session |-> body.session, ret |-> body.ret]
    ELSE IF body.exc = "JSONDecodeError"
    THEN [raised |-> FALSE, session |-> body.session, ret |-> ParseError]
    ELSE [raised |-> TRUE, session |-> body.session, ret |-> NoRet]

\* classify_query: the try block and its two handlers
classify_query(query, m, response, t) ==
    LET body == ClassifyBody(query, m, response, t) IN
    IF body.exc = "none"
    THEN [raised |-> FALSE, session |-> body.session, ret |-> body.ret]
    ELSE IF body.exc = "JSONDecodeError"
    THEN [raised |-> FALSE, session |-> body.session, ret |-> ParseError]
    ELSE [raised |-> FALSE, session |-> body.session, ret |-> RouterError]

StoreRouteNever(m, route, t) == m

\* the route stored whatever it is
StoreRouteAlways(m, route, t) == set_route(m, route, t)

\* "store route for follow-up detection (unless out_of_scope)"
StoreRoute(m, route, t) ==
    IF route # "out_of_scope" THEN set_route(m, route, t) ELSE m

\* get_route_for_query
get_route_for_query(query, m, response, t) ==
    LET c == classify_query(query, m, response, t) IN
    IF c.raised THEN c
    ELSE [raised |-> FALSE,
          session |-> StoreRoute(c.session, c.ret.route, t),
          ret |-> [route |-> c.ret.route, confidence |-> "-",
                   reason |-> << >>]]

\* router_node; forced is state["route"]
router_node(query, forced, m, response, t) ==
    LET meta_result == handle_meta_question(query, m, t) IN
    IF meta_result.matched
    THEN [raised |-> FALSE, session |-> meta_result.session,
          content |-> meta_result.content,
          ret |-> [route |-> "meta", confidence |-> "-", reason |-> << >>]]
    ELSE IF forced # None /\ forced \in Routes
    THEN [raised |-> FALSE, session |-> set_route(m, forced, t),
          content |-> NoContent,
          ret |-> [route |-> forced, confidence |-> "-", reason |-> << >>]]
    ELSE LET c == get_route_for_query(query, m, response, t) IN
         [raised |-> c.raised, session |-> c.session, content |-> NoContent,
          ret |-> c.ret]

\* router_model.invoke is reached
ClassifyInvokes(query) == detect_route_from_column_terms(query) = None

RouterNodeInvokes(query, forced) ==
    /\ ~AnyIn(META_PATTERNS, query)
    /\ ~(forced # None /\ forced \in Routes)
    /\ ClassifyInvokes(query)

ResponsesWhen(invoked) == IF invoked THEN ModelResponses ELSE {NoResponse}

\* SharedMemory.get_session inside a router call: the session under s
Registered(s) ==
    IF s \in DOMAIN sessions THEN sessions[s] ELSE SessionMemory(nextOid, now)

\* a router call on session s: res holds the session after the call, what
\* the call returns and whether it raised
RouterCall(op, s, query, forced, res, content, response) ==
    /\ Called(op, s)
    /\ request' = [query |-> query, forced |-> forced]
    /\ StartCleanupThread
    /\ sessions' = (s :> res.session) @@ sessions
    /\ nextOid' = IF s \in DOMAIN sessions THEN nextOid ELSE nextOid + 1
    /\ log' = IF s \in DOMAIN sessions THEN log ELSE [log EXCEPT ![s] = << >>]
    /\ result' = [route |-> res.ret.route,
                  confidence |-> res.ret.confidence,
                  reason |-> res.ret.reason,
                  content |-> content,
                  raised |-> res.raised]
    /\ model_response' = response
    /\ UNCHANGED <<now, nticks>>

ClassifyQuery(s, query) ==
    /\ ncalls < MaxRouterCalls
    /\ \E response \in ResponsesWhen(ClassifyInvokes(query)) :
        RouterCall("classify_query", s, query, None,
                   classify_query(query, Registered(s), response, now),
                   NoContent, response)

GetRouteForQuery(s, query) ==
    /\ ncalls < MaxRouterCalls
    /\ \E response \in ResponsesWhen(ClassifyInvokes(query)) :
        RouterCall("get_route_for_query", s, query, None,
                   get_route_for_query(query, Registered(s), response, now),
                   NoContent, response)

RouterNode(s, query, forced) ==
    /\ ncalls < MaxRouterCalls
    /\ \E response \in ResponsesWhen(RouterNodeInvokes(query, forced)) :
        LET res == router_node(query, forced, Registered(s), response, now)
        IN  RouterCall("router_node", s, query, forced, res, res.content,
                       response)

NextRouter ==
    \/ \E s \in RouterSessions, q \in Queries : ClassifyQuery(s, q)
    \/ \E s \in RouterSessions, q \in Queries : GetRouteForQuery(s, q)
    \/ \E s \in RouterSessions, q \in Queries, f \in ForcedRoutes :
           RouterNode(s, q, f)
    \/ \E s \in RouterSessions, text \in TextLens :
           ncalls < MaxRouterCalls /\ AddUser(s, text)

\* The router is entered either as the process starts, or on session "s1"
\* after one user turn, with or without a route stored by an earlier query.
InitRouter ==
    /\ NoCallYet
    /\ ThreadsIdle
    /\ \/ /\ sessions = << >>
          /\ nextOid = 1
          /\ cleanup_thread = 0
          /\ thread_started = {}
          /\ running = FALSE
          /\ log = [sid \in SessionIds |-> << >>]
       \/ \E route \in {None, "sql"} :
          /\ sessions =
                 ("s1" :> add_user(IF route = None THEN SessionMemory(1, 0)
                                   ELSE set_route(SessionMemory(1, 0), route, 0),
                                   7, 0))
          /\ nextOid = 2
          /\ cleanup_thread = 1
          /\ thread_started = {1}
          /\ running = TRUE
          /\ log = [sid \in SessionIds |->
                       IF sid = "s1" THEN <<HumanMessage(7)>> ELSE << >>]

SpecRouter == InitRouter /\ [][NextRouter]_vars

(***************************************************************************)
(* column_disambiguator.py.  A text is a sequence of symbols: words, the   *)
(* space " " and the underscore "_".  A term of a table is one symbol, a   *)
(* column name a sequence of symbols.  The tables are cut down to the      *)
(* first entries of the source, and to one or two columns each.            *)
(***************************************************************************)
MaxTextLen == 4

\* LATIN CAPITAL LETTER I WITH DOT ABOVE, whose str.lower() is two
\* characters: "i" and COMBINING DOT ABOVE
CapitalIDot == "U+0130"

\* str.lower() of one symbol. A text is a sequence of symbols: a symbol is
\* one character, or a word whose lower-casing has as many characters as
\* the word
LowerSymbol(c) ==
    IF c = CapitalIDot THEN <<"i", "U+0307">>
    ELSE IF c = "Q" THEN <<"q">>
    ELSE IF c = "List" THEN <<"list">>
    ELSE IF c = "Visualize" THEN <<"visualize">>
    ELSE IF c = "Requested" THEN <<"requested">>
    ELSE IF c = "Actual" THEN <<"actual">>
    ELSE IF c = "Date" THEN <<"date">>
    ELSE <<Lower(c)>>

\* str.lower()
RECURSIVE LowerText(_)
LowerText(text) ==
    IF text = << >> THEN << >>
    ELSE LowerSymbol(Head(text)) \o LowerText(Tail(text))

\* text[a:b] of Python, for 0 <= a
Slice2(text, a, b) == SubSeq(text, a + 1, Min(b, Len(text)))

\* text[a:] of Python, for 0 <= a
SliceFrom(text, a) == SubSeq(text, a + 1, Len(text))

\* pattern occurs in text at index pos, counted from 0
OccursAt(text, pattern, pos) ==
    /\ pos + Len(pattern) <= Len(text)
    /\ SubSeq(text, pos + 1, pos + Len(pattern)) = pattern

\* text.find(pattern)
Find(text, pattern) ==
    IF \E pos \in 0..Len(text) : OccursAt(text, pattern, pos)
    THEN CHOOSE pos \in 0..Len(text) :
             /\ OccursAt(text, pattern, pos)
             /\ \A before \in 0..(pos - 1) : ~OccursAt(text, pattern, before)
    ELSE -1

\* pattern in text
In(pattern, text) == Find(text, pattern) # -1

\* text.replace("_", " ")
ReplaceUnderscores(text) ==
    [i \in 1..Len(text) |-> IF text[i] = "_" THEN " " ELSE text[i]]

\* the "columns" of the entries of SQL_AMBIGUOUS_TERMS, CSV_AMBIGUOUS_TERMS
SqlColumns(term) ==
    IF term = "quantity"
    THEN << <<"Requested", " ", "Quantity">>, <<"Actual", " ", "Quantity">> >>
    ELSE << <<"Actual", " ", "Date">> >>

CsvColumns(term) ==
    IF term = "duration"
    THEN << <<"dwell", "_", "hrs">>, <<"dwell", "_", "minutes">> >>
    ELSE << <<"entry", "_", "time">> >>

\* the table of a domain, and the candidate columns of one of its terms
TermsOf(domain) ==
    IF domain = "sql" THEN SQL_AMBIGUOUS_TERMS ELSE CSV_AMBIGUOUS_TERMS

ColumnsOf(domain, term) ==
    IF domain = "sql" THEN SqlColumns(term) ELSE CsvColumns(term)

is_specific_verbatim_only(query, term, columns) ==
    LET query_lower == LowerText(query) IN
    \E k \in 1..Len(columns) : In(LowerText(columns[k]), query_lower)

is_already_specific(query, term, columns) ==
    LET query_lower == LowerText(query) IN
    \E k \in 1..Len(columns) :
        \/ In(LowerText(columns[k]), query_lower)
        \/ In(ReplaceUnderscores(LowerText(columns[k])), query_lower)

\* the loop of detect_sql_disambiguation and detect_csv_disambiguation over
\* the entries k, k+1, ... of a table: the term returned, or None
RECURSIVE DetectFrom(_, _, _)
DetectFrom(query_lower, domain, k) ==
    LET terms == TermsOf(domain) IN
    IF k > Len(terms) THEN None
    ELSE IF /\ In(<<terms[k]>>, query_lower)
            /\ ~is_already_specific(query_lower, terms[k],
                                    ColumnsOf(domain, terms[k]))
    THEN terms[k]
    ELSE DetectFrom(query_lower, domain, k + 1)

detect_sql_disambiguation(query) == DetectFrom(LowerText(query), "sql", 1)

detect_csv_disambiguation(query) == DetectFrom(LowerText(query), "csv", 1)

combine_query_with_disambiguation(original_query, ambiguous_term, selected_column) ==
    LET query_lower == LowerText(original_query)
        term_lower == LowerText(ambiguous_term)
        pos == Find(query_lower, term_lower)
    IN  IF pos # -1
        THEN Slice2(original_query, 0, pos) \o selected_column
                 \o SliceFrom(original_query, pos + Len(ambiguous_term))
        ELSE original_query \o <<" ", "(", "u", "s", "i", "n", "g", " ">>
                 \o selected_column \o <<")">>

\* all the texts of at most n symbols of an alphabet
Texts(alphabet, n) == UNION {[1..k -> alphabet] : k \in 0..n}

DetectSymbols ==
    {"Quantity", "Requested", " ", "date", "duration", "dwell", "_", "hrs"}
\* the queries, terms and replies given to combine are texts of characters
ResolveSymbols == {"q", "Q", " ", "t", CapitalIDot}
ResolveTerms == {<<"q", "t">>, <<"t">>, <<"d">>}
ResolveChoices == {<< >>, <<"q", "t">>, <<"Q", " ">>}

\* a call of a function of the disambiguator, with nothing else going on
PureCall(op, value) ==
    /\ call.op = "none"
    /\ call' = [op |-> op, sid |-> "-"]
    /\ ncalls' = ncalls + 1
    /\ result' = value
    /\ UNCHANGED <<sessions, now, nticks, cleanup_thread, thread_started,
                   running, model_response, request, nextOid, log>>
    /\ UNCHANGED threadVars

DetectSql == PureCall("detect_sql_disambiguation",
                      detect_sql_disambiguation(request.query))

DetectCsv == PureCall("detect_csv_disambiguation",
                      detect_csv_disambiguation(request.query))

Resolve ==
    PureCall("combine_query_with_disambiguation",
             combine_query_with_disambiguation(request.query, request.term,
                                               request.choice))

NoStoreCall ==
    /\ sessions = << >>
    /\ nextOid = 1
    /\ cleanup_thread = 0
    /\ thread_started = {}
    /\ running = FALSE
    /\ log = [sid \in SessionIds |-> << >>]
    /\ now = 0
    /\ nticks = 0
    /\ call = [op |-> "none", sid |-> "-"]
    /\ result = None
    /\ model_response = NoResponse
    /\ ncalls = 0
    /\ ThreadsIdle

InitDetect ==
    /\ NoStoreCall
    /\ request \in [query : Texts(DetectSymbols, MaxTextLen)]

NextDetect == DetectSql \/ DetectCsv

SpecDetect == InitDetect /\ [][NextDetect]_vars

InitResolve ==
    /\ NoStoreCall
    /\ request \in [query : Texts(ResolveSymbols, MaxTextLen),
                    term : ResolveTerms,
                    choice : ResolveChoices]

NextResolve == Resolve

SpecResolve == InitResolve /\ [][NextResolve]_vars

(***************************************************************************)
(* The workflow: run_workflow runs router_node and then the node of the    *)
(* route. A collaborator's answer is an input of the step: the length of   *)
(* its content, and whether a result context was stored with it.           *)
(***************************************************************************)
MaxTurns == 3

Outcomes == [answer : {7}, context : BOOLEAN]
NoOutcome == [answer |-> 0, context |-> FALSE]

\* what an agent returns: the session after it, whether it asks the user to
\* choose a column, and the query it handed to its collaborator: <<query>>,
\* or << >> when it handed none
AgentReturn(m, asks, executed) ==
    [session |-> m, needs_disambiguation |-> asks, executed |-> executed]

\* _execute_generated_query and its like, followed by memory.add_ai
Execute(m, outcome, t) ==
    add_ai(IF outcome.context
           THEN set_last_result_context(m, [type |-> "single_result"], t)
           ELSE m,
           outcome.answer, t)

\* CHECK 1 without clear_pending_disambiguation
ResolvePending_keeps_pending(query, m, outcome, t) ==
    LET pending == get_pending_disambiguation(m)[1]
        enhanced_query ==
            combine_query_with_disambiguation(pending.original_query,
                                              <<pending.ambiguous_term>>,
                                              query)
    IN  AgentReturn(Execute(add_user(m, Len(enhanced_query), t), outcome, t),
                    FALSE, <<enhanced_query>>)

\* CHECK 1 of run_sql_agent and run_csv_agent: the reply resolves the
\* pending disambiguation
ResolvePending(query, m, outcome, t) ==
    LET pending == get_pending_disambiguation(m)[1]
        enhanced_query ==
            combine_query_with_disambiguation(pending.original_query,
                                              <<pending.ambiguous_term>>,
                                              query)
        cleared == clear_pending_disambiguation(m)
    IN  AgentReturn(Execute(add_user(cleared, Len(enhanced_query), t),
                            outcome, t),
                    FALSE, <<enhanced_query>>)

\* CHECK 2 and the normal flow, for the term detected or None
DetectOrRun(query, disambiguation, m, outcome, t) ==
    IF disambiguation # None
    THEN AgentReturn(
             set_pending_disambiguation(
                 m, [original_query |-> query,
                     ambiguous_term |-> disambiguation], t),
             TRUE, << >>)
    ELSE AgentReturn(Execute(add_user(m, Len(query), t), outcome, t),
                     FALSE, <<query>>)

run_sql_agent(query, m, outcome, t) ==
    LET memory == get(m, t) IN
    IF has_pending_disambiguation(memory)
    THEN ResolvePending(query, memory, outcome, t)
    ELSE DetectOrRun(query, detect_sql_disambiguation(query), memory,
                     outcome, t)

run_csv_agent(query, m, outcome, t) ==
    LET memory == get(m, t) IN
    IF has_pending_disambiguation(memory)
    THEN ResolvePending(query, memory, outcome, t)
    ELSE DetectOrRun(query, detect_csv_disambiguation(query), memory,
                     outcome, t)

run_pdf_agent(query, m, outcome, t) ==
    AgentReturn(add_ai(add_user(get(m, t), Len(query), t), outcome.answer, t),
                FALSE, <<query>>)

run_math_agent(query, m, outcome, t) ==
    AgentReturn(add_ai(add_user(m, Len(query), t), outcome.answer, t),
                FALSE, <<query>>)

\* the nodes of the graph, by route
WorkflowNodes == {"sql", "csv", "pdf", "math", "out_of_scope", "meta"}

\* the node of the route, after router_node returned routed
RouteDecision(query, routed, outcome, t) ==
    LET route == routed.ret.route
        agent ==
            CASE route = "sql" -> run_sql_agent(query, routed.session,
                                                outcome, t)
              [] route = "csv" -> run_csv_agent(query, routed.session,
                                                outcome, t)
              [] route = "pdf" -> run_pdf_agent(query, routed.session,
                                                outcome, t)
              [] route = "math" -> run_math_agent(query, routed.session,
                                                  outcome, t)
              [] OTHER -> AgentReturn(routed.session, FALSE, << >>)
    IN  [raised |-> routed.raised \/ route \notin WorkflowNodes,
         session |-> IF routed.raised THEN routed.session ELSE agent.session,
         route |-> route,
         needs_disambiguation |-> ~routed.raised /\ agent.needs_disambiguation,
         executed |-> IF routed.raised THEN << >> ELSE agent.executed]

run_workflow(query, forced, m, response, outcome, t) ==
    RouteDecision(query, router_node(query, forced, m, response, t), outcome,
                  t)

\* a user's turns: a question with an ambiguous term of each domain, the
\* name of a column, replies that name no column, a calculation, a question
\* about the conversation
Turns ==
    {<<"Quantity">>, <<"duration">>, <<"Requested", " ", "Quantity">>,
     <<"weather">>, <<"SQRT">>, <<"Last Question">>}

\* the answers of the classification model in a turn
TurnResponses ==
    {r \in ModelResponses :
        /\ r.kind = "object"
        /\ r.route \in {"pdf", "out_of_scope"}
        /\ r.confidence = "high"
        /\ r.reason = <<"uses", "a", "Pronoun">>}

\* collaborators are reached by the sql, csv, pdf and math nodes only
OutcomesWhen(route) == IF route \in Routes THEN Outcomes ELSE {NoOutcome}

\* POST /api/query
RunWorkflow(s, query, forced) ==
    /\ ncalls < MaxTurns
    /\ \E response \in
           IF RouterNodeInvokes(query, forced) THEN TurnResponses
           ELSE {NoResponse} :
       \E routed \in {router_node(query, forced, Registered(s), response,
                                   now)} :
       \E outcome \in OutcomesWhen(routed.ret.route) :
       \E res \in {RouteDecision(query, routed, outcome, now)} :
            /\ Called("run_workflow", s)
            /\ request' = [query |-> query, forced |-> forced]
            /\ StartCleanupThread
            /\ sessions' = (s :> res.session) @@ sessions
            /\ nextOid' = IF s \in DOMAIN sessions THEN nextOid
                          ELSE nextOid + 1
            /\ log' = IF s \in DOMAIN sessions THEN log
                      ELSE [log EXCEPT ![s] = << >>]
            /\ result' = [route |-> res.route,
                          needs_disambiguation |-> res.needs_disambiguation,
                          executed |-> res.executed,
                          raised |-> res.raised]
            /\ model_response' = response
            /\ UNCHANGED <<now, nticks>>

InitWorkflow == NoStoreCall /\ request = NoRequest

NextWorkflow ==
    \E s \in RouterSessions, query \in Turns, forced \in {None, "sql", "csv"} :
        RunWorkflow(s, query, forced)

SpecWorkflow == InitWorkflow /\ [][NextWorkflow]_vars

(***************************************************************************)
(* Duplicate requests: NThreads threads run run_sql_agent or run_csv_agent *)
(* with the same reply on a session whose disambiguation is pending.  A    *)
(* thread's step is one call on the SessionMemory object; tmp[t] holds the *)
(* thread's local variable pending.                                        *)
(***************************************************************************)
\* the turn that asked, and the reply every duplicate request carries
AskedQuery == <<"Quantity">>
Reply == <<"Requested", " ", "Quantity">>

\* a step of thread t at statement label that changes the session into m
\* and goes to statement next
RsStep(t, label, m, next) ==
    /\ pc[t] = label
    /\ sessions' = [sessions EXCEPT ![tsid[t]] = m]
    /\ Goto(t, next)
    /\ UNCHANGED <<now, nticks, cleanup_thread, thread_started, running,
                   callVars, nextOid, log>>
    /\ UNCHANGED <<tprog, tsid, tref, lref, tmp, lock, hist_id, next_hid>>

\* history = memory.get()
RsHistory(t) ==
    RsStep(t, "rs_history", get(sessions[tsid[t]], now), "rs_has_pending")

\* CHECK 1: if memory.has_pending_disambiguation()
RsHasPending(t) ==
    RsStep(t, "rs_has_pending", sessions[tsid[t]],
           IF has_pending_disambiguation(sessions[tsid[t]])
           THEN "rs_get_pending" ELSE "rs_detect")

\* pending = memory.get_pending_disambiguation(); pending["original_query"]
\* raises TypeError when pending is None
RsGetPending(t) ==
    /\ pc[t] = "rs_get_pending"
    /\ tmp' = [tmp EXCEPT ![t] =
                   get_pending_disambiguation(sessions[tsid[t]])]
    /\ Goto(t, IF get_pending_disambiguation(sessions[tsid[t]]) = << >>
               THEN "raised" ELSE "rs_clear_pending")
    /\ UNCHANGED <<storeVars, tprog, tsid, tref, lref, lock, hist_id,
                   next_hid>>

\* memory.clear_pending_disambiguation()
RsClearPending(t) ==
    RsStep(t, "rs_clear_pending",
           clear_pending_disambiguation(sessions[tsid[t]]), "rs_resolved")

\* memory.add_user(enhanced_query), the collaborator's run of the enhanced
\* query, memory.add_ai
RsResolved(t) ==
    \E outcome \in Outcomes :
        RsStep(t, "rs_resolved",
               Execute(add_user(sessions[tsid[t]],
                                Len(combine_query_with_disambiguation(
                                        tmp[t][1].original_query,
                                        <<tmp[t][1].ambiguous_term>>, Reply)),
                                now),
                       outcome, now),
               "done")

\* CHECK 2 and the normal flow
RsDetect(t) ==
    \E outcome \in Outcomes :
        RsStep(t, "rs_detect",
               DetectOrRun(Reply,
                           IF tprog[t] = "run_sql_agent"
                           THEN detect_sql_disambiguation(Reply)
                           ELSE detect_csv_disambiguation(Reply),
                           sessions[tsid[t]], outcome, now).session,
               "done")

\* session "s1" after the turn AskedQuery, routed to sql
InitPending ==
    /\ NoCallYet
    /\ sessions =
           ("s1" :> run_sql_agent(AskedQuery,
                                  set_route(SessionMemory(1, 0), "sql", 0),
                                  NoOutcome, 0).session)
    /\ nextOid = 2
    /\ cleanup_thread = 1
    /\ thread_started = {1}
    /\ running = TRUE
    /\ log = [sid \in SessionIds |-> << >>]
    /\ hist_id = [sid \in SessionIds |-> IF sid = "s1" THEN 1 ELSE 0]
    /\ next_hid = 2
    /\ tprog \in [Threads -> {"run_sql_agent", "run_csv_agent"}]
    /\ tsid = [t \in Threads |-> "s1"]
    /\ pc = [t \in Threads |-> "rs_history"]
    /\ tref = [t \in Threads |-> 1]
    /\ lref = [t \in Threads |-> 0]
    /\ tmp = [t \in Threads |-> << >>]
    /\ lock = 0

NextPending ==
    \E t \in Threads :
        \/ RsHistory(t)
        \/ RsHasPending(t)
        \/ RsGetPending(t)
        \/ RsClearPending(t)
        \/ RsResolved(t)
        \/ RsDetect(t)

SpecPending == InitPending /\ [][NextPending]_vars

(***************************************************************************)
(* The visualization detector: visualization_detector.py.  A column name   *)
(* and a query are texts, as in the disambiguator; the keyword tables are  *)
(* cut down to two entries each, in the order of the source.  A cell of a  *)
(* row is a value of one of four kinds: a string, a number, a numeric      *)
(* string, None.  The title of a chart is left out.                        *)
(***************************************************************************)
MaxRows == 11

TIME_COLUMNS == << <<"date">>, <<"entry", "_", "time">> >>
CATEGORY_COLUMNS == << <<"zone", "_", "name">>, <<"zone">> >>
VALUE_COLUMNS == << <<"count">>, <<"avg">> >>
NO_VISUALIZATION_KEYWORDS == << <<"list">>, <<"details">> >>
VISUALIZATION_KEYWORDS == << <<"count">>, <<"total">> >>
EXPLICIT_CHART_KEYWORDS == << <<"show", " ", "chart">>, <<"visualize">> >>

Strings == {"a", "b", "s7"}
Numbers == {"n1"}
NumericStrings == {"s7"}
NoneValue == "null"

\* isinstance(val, str)
IsStr(val) == val \in Strings

\* isinstance(val, (int, float))
IsNumber(val) == val \in Numbers

_is_numeric_value(val) == val \in Numbers \/ val \in NumericStrings

\* str.strip(), of the spaces
RECURSIVE StripLeft(_)
StripLeft(text) ==
    IF text # << >> /\ Head(text) = " " THEN StripLeft(Tail(text)) ELSE text

RECURSIVE StripRight(_)
StripRight(text) ==
    IF text # << >> /\ text[Len(text)] = " "
    THEN StripRight(SubSeq(text, 1, Len(text) - 1))
    ELSE text

Strip(text) == StripRight(StripLeft(text))

\* text.replace("-", " ")
ReplaceHyphens(text) ==
    [i \in 1..Len(text) |-> IF text[i] = "-" THEN " " ELSE text[i]]

_normalize_column(col) ==
    ReplaceHyphens(ReplaceUnderscores(Strip(LowerText(col))))

\* any(entry in text for entry in table)
AnyEntryIn(table, text) == \E k \in 1..Len(table) : In(table[k], text)

_is_time_column(col) == AnyEntryIn(TIME_COLUMNS, _normalize_column(col))

_is_category_column(col) ==
    AnyEntryIn(CATEGORY_COLUMNS, _normalize_column(col))

_is_value_column(col) == AnyEntryIn(VALUE_COLUMNS, _normalize_column(col))

_should_skip_raw_data_first(query) ==
    LET query_lower == LowerText(query) IN
    IF AnyEntryIn(EXPLICIT_CHART_KEYWORDS, query_lower) THEN FALSE
    ELSE AnyEntryIn(NO_VISUALIZATION_KEYWORDS, query_lower)

_should_skip_visualization(query) ==
    LET query_lower == LowerText(query) IN
    IF AnyEntryIn(EXPLICIT_CHART_KEYWORDS, query_lower) THEN FALSE
    ELSE IF AnyEntryIn(VISUALIZATION_KEYWORDS, query_lower) THEN FALSE
    ELSE AnyEntryIn(NO_VISUALIZATION_KEYWORDS, query_lower)

\* _detect_column_types: the columns of one type, in the order of columns
ColumnType(col) ==
    IF _is_time_column(col) THEN "time"
    ELSE IF _is_value_column(col) THEN "value"
    ELSE IF _is_category_column(col) THEN "category"
    ELSE "other"

_detect_column_types(columns, type) ==
    SelectSeq(columns, LAMBDA col : ColumnType(col) = type)

\* VisualizationConfig; an optional axis is << >> or <<column>>, the
\* optional list of axes is << >> or <<list>>
VisualizationConfig(chart_type, x_axis, y_axis, y_axis_secondary, y_axis_list, group_by) ==
    [should_visualize |-> TRUE,
     chart_type |-> chart_type,
     x_axis |-> x_axis,
     y_axis |-> y_axis,
     y_axis_secondary |-> y_axis_secondary,
     y_axis_list |-> y_axis_list,
     group_by |-> group_by]

_no_visualization ==
    [should_visualize |-> FALSE,
     chart_type |-> None,
     x_axis |-> << >>,
     y_axis |-> << >>,
     y_axis_secondary |-> << >>,
     y_axis_list |-> << >>,
     group_by |-> << >>]

\* the chart of a category and a value, by the number of rows
ChartByRowCount(num_rows) ==
    IF num_rows > 10 THEN "horizontal_bar"
    ELSE IF num_rows <= 6 THEN "pie"
    ELSE "bar"

\* the columns i of range(1, n) whose cell in the first row is numeric
NumericIndexes(first_row, n) ==
    SelectSeq([i \in 1..(n - 1) |-> i + 1],
              LAMBDA i : _is_numeric_value(first_row[i]))

\* CASE 3 applies and returns
Case3(columns, rows) ==
    LET first_row == rows[1] IN
    /\ Len(columns) >= 2
    /\ Len(first_row) >= 2
    /\ IsStr(first_row[1])
    /\ _is_numeric_value(first_row[2])
    /\ Len(NumericIndexes(first_row, Len(first_row))) < 2

Case3Config(columns, rows) ==
    IF _is_time_column(columns[1])
    THEN VisualizationConfig("line", <<columns[1]>>, <<columns[2]>>, << >>,
                             << >>, << >>)
    ELSE VisualizationConfig(ChartByRowCount(Len(rows)), <<columns[1]>>,
                             <<columns[2]>>, << >>, << >>, << >>)

\* CASE 4: the numeric columns after the first
Case4Columns(columns, rows) ==
    LET idx == NumericIndexes(rows[1], Min(Len(columns), Len(rows[1])))
    IN  [k \in 1..Len(idx) |-> columns[idx[k]]]

Case4(columns, rows) ==
    /\ Len(columns) >= 3
    /\ Len(rows[1]) >= 3
    /\ IsStr(rows[1][1])
    /\ Len(Case4Columns(columns, rows)) >= 2

Case4Config(columns, rows) ==
    LET numeric_columns == Case4Columns(columns, rows) IN
    IF _is_time_column(columns[1])
    THEN VisualizationConfig(
             "line", <<columns[1]>>, <<numeric_columns[1]>>,
             <<numeric_columns[2]>>,
             IF Len(numeric_columns) > 2 THEN <<numeric_columns>> ELSE << >>,
             << >>)
    ELSE VisualizationConfig(
             IF Len(rows) > 10 THEN "horizontal_grouped_bar"
             ELSE "grouped_bar",
             <<columns[1]>>, <<numeric_columns[1]>>,
             IF Len(numeric_columns) = 2 THEN <<numeric_columns[2]>>
             ELSE << >>,
             IF Len(numeric_columns) > 2 THEN <<numeric_columns>> ELSE << >>,
             << >>)

\* CASE 4.5: string, string, number
Case45(columns, rows) ==
    /\ Len(columns) >= 3
    /\ Len(rows[1]) >= 3
    /\ IsStr(rows[1][1])
    /\ IsStr(rows[1][2])
    /\ IsNumber(rows[1][3])

Case45Config(columns, rows) ==
    LET unique_first_values ==
            Cardinality({rows[i][1] : i \in 1..Len(rows)})
        unique_second_values ==
            Cardinality({rows[i][2] : i \in 1..Len(rows)})
    IN  IF unique_first_values <= 10 /\ unique_first_values > 1
        THEN VisualizationConfig(
                 IF unique_second_values > 10 THEN "horizontal_grouped_bar"
                 ELSE "grouped_bar",
                 <<columns[2]>>, <<columns[3]>>, << >>, << >>,
                 <<columns[1]>>)
        ELSE VisualizationConfig(ChartByRowCount(Len(rows)), <<columns[2]>>,
                                 <<columns[3]>>, << >>, << >>, << >>)

\* CASE 5, CASE 6 and the default: by the names of the columns
ByColumnNames(columns, rows) ==
    LET time == _detect_column_types(columns, "time")
        category == _detect_column_types(columns, "category")
        value == _detect_column_types(columns, "value")
    IN  IF time # << >>
        THEN VisualizationConfig(
                 "line", <<time[1]>>,
                 IF value # << >> THEN <<value[1]>> ELSE <<columns[2]>>,
                 IF Len(value) > 1 THEN <<value[2]>> ELSE << >>,
                 << >>, << >>)
        ELSE IF category # << >> /\ Len(columns) >= 2
        THEN VisualizationConfig(
                 ChartByRowCount(Len(rows)), <<category[1]>>,
                 IF value # << >> THEN <<value[1]>> ELSE <<columns[2]>>,
                 << >>, << >>, << >>)
        ELSE _no_visualization

detect_visualization(columns, rows, query) ==
    IF columns = << >> \/ rows = << >> THEN _no_visualization
    ELSE IF _should_skip_visualization(query) THEN _no_visualization
    ELSE IF Len(rows) = 1 THEN _no_visualization
    ELSE IF Len(columns) = 1 THEN _no_visualization
    ELSE IF Case3(columns, rows) THEN Case3Config(columns, rows)
    ELSE IF Case4(columns, rows) THEN Case4Config(columns, rows)
    ELSE IF Case45(columns, rows) THEN Case45Config(columns, rows)
    ELSE ByColumnNames(columns, rows)

\* the names of the columns of a result
ColumnNames ==
    {<<"zone", "_", "name">>, <<"entry", "_", "time">>,
     <<"Actual", " ", "Date">>, <<"avg", "_", "hrs">>}

\* the cells of a row
Cells == Strings \cup Numbers \cup {NoneValue}

\* the numbers of rows of a result: around each threshold
RowCounts == {0, 1, 2, 6, 7, 10, MaxRows}

\* a result of n rows: first and, where a row differs from it, other
RowsOf(n, first, other) ==
    [i \in 1..n |-> IF i % 2 = 1 THEN first ELSE other]

\* a row that differs from row in its strings
OtherRow(row) ==
    [i \in 1..Len(row) |-> IF row[i] = "a" THEN "b" ELSE row[i]]

VizQueries ==
    {<<"trend">>, <<"list">>, <<"List", " ", "total">>,
     <<"list", " ", "show", " ", "chart">>, <<"Visualize">>}

\* the calls of detect_visualization, for the queries given
VizRequests(queries) ==
    UNION {
        {[columns |-> columns,
          rows |-> RowsOf(n, first, IF varied THEN OtherRow(first) ELSE first),
          query |-> query] :
            columns \in [1..ncols -> ColumnNames],
            first \in [1..ncols -> Cells],
            varied \in BOOLEAN,
            n \in RowCounts,
            query \in queries} : ncols \in 0..2}
    \cup {[columns |-> columns,
           rows |-> RowsOf(n, first, IF varied THEN OtherRow(first) ELSE first),
           query |-> <<"trend">>] :
            columns \in [1..3 -> ColumnNames \ {<<"avg", "_", "hrs">>}],
            first \in [1..3 -> Cells \ {"b"}],
            varied \in BOOLEAN,
            n \in {2, MaxRows}}

DetectVisualization ==
    PureCall("detect_visualization",
             detect_visualization(request.columns, request.rows,
                                  request.query))

InitVisualize ==
    /\ NoStoreCall
    /\ request \in VizRequests(VizQueries)

NextVisualize == DetectVisualization

SpecVisualize == InitVisualize /\ [][NextVisualize]_vars

(***************************************************************************)
(* Query execution of the SQL and CSV agents: the result context and the *)
(* table and visualization of the response                                 *)
(* (backend/agents/sql_agent.py, backend/agents/csv_agent_wrapper.py).     *)
(*                                                                         *)
(* What execute_sql returns is [kind |-> "error"] or [kind |-> "rows"]     *)
(* with its columns and rows; it is called data here.  A dict is a         *)
(* function from its keys.  The value                                      *)
(* kept for a key column, "unique_values if len(unique_values) > 1 else    *)
(* unique_values[0]", is [list |-> TRUE, value |-> the values] or          *)
(* [list |-> FALSE, value |-> the one-element sequence].                   *)
(***************************************************************************)
\* executions in one behaviour of SpecExecute
MaxExecutions == 2
\* rows returned by an execution in SpecExecute
MaxResultRows == 2

\* the first two of the eight names of sql_agent.py:32, and two of the four
\* of csv_agent_wrapper.py:25
KEY_COLUMNS == << <<"Vendor", " ", "Name">>, <<"Power", " ", "Plant">> >>
CSV_KEY_COLUMNS == << <<"zone", "_", "name">>, <<"month">> >>

InList(x, list) == \E i \in DOMAIN list : list[i] = x

\* Python's truth of a cell: None is false; the cells of the model are
\* non-empty strings and non-zero numbers otherwise
Truthy(val) == val # NoneValue

\* {col: row[i] for i, col in enumerate(columns)}: the last value wins
DictOf(columns, row) ==
    [col \in {columns[i] : i \in DOMAIN columns} |->
        row[CHOOSE i \in DOMAIN columns :
                /\ columns[i] = col
                /\ \A j \in DOMAIN columns : j > i => columns[j] # col]]

\* the loop over rows[:10] that collects the first 5 distinct true values of
\* column i, from row k on
RECURSIVE UniqueValues(_, _, _, _)
UniqueValues(rows, i, k, unique_values) ==
    IF k > Len(rows) \/ k > 10 \/ Len(unique_values) >= 5
    THEN unique_values
    ELSE UniqueValues(rows, i, k + 1,
                      IF Truthy(rows[k][i]) /\ ~InList(rows[k][i], unique_values)
                      THEN Append(unique_values, rows[k][i])
                      ELSE unique_values)

KeyValue(unique_values) ==
    [list |-> Len(unique_values) > 1, value |-> unique_values]

\* context["key_values"] of _extract_result_context
KeyValues(columns, rows) ==
    LET kept == {i \in DOMAIN columns :
                    /\ InList(columns[i], KEY_COLUMNS)
                    /\ UniqueValues(rows, i, 1, << >>) # << >>}
    IN  [col \in {columns[i] : i \in kept} |->
            KeyValue(UniqueValues(
                rows,
                CHOOSE i \in kept :
                    /\ columns[i] = col
                    /\ \A j \in kept : j > i => columns[j] # col,
                1, << >>))]

\* the context of what execute_sql returned: <<context>>, or << >> for None
_extract_result_context(data) ==
    IF data.kind = "error" THEN << >>
    ELSE IF Len(data.rows) = 0 THEN << >>
    ELSE IF Len(data.rows) = 1
    THEN << [type |-> "single_result",
             values |-> DictOf(data.columns, data.rows[1])] >>
    ELSE IF DOMAIN KeyValues(data.columns, data.rows) = {} THEN << >>
    ELSE << [type |-> "multi_result",
             count |-> Len(data.rows),
             key_values |-> KeyValues(data.columns, data.rows)] >>

is_scalar_result(data) ==
    /\ data.kind = "rows"
    /\ Len(data.rows) = 1
    /\ Len(data.columns) = 1

\* a response of an agent: what it says (an answer, an error, a notice), its
\* table and its visualization, each <<value>> or << >> for None
AgentResponse(kind, table, visualization) ==
    [kind |-> kind, table |-> table, visualization |-> visualization]

TableData(columns, rows) == [columns |-> columns, rows |-> rows]

\* "context = _extract_result_context(result); if context: ..." and what
\* follows it in _execute_fixed_query and _execute_generated_query
StoreAndRespond(query_text, m, data, t) ==
    LET context == _extract_result_context(data)
        memory == IF context # << >>
                  THEN set_last_result_context(m, context[1], t)
                  ELSE m
    IN  IF is_scalar_result(data)
        THEN [session |-> memory,
              response |-> AgentResponse("answer", << >>, << >>)]
        ELSE [session |-> memory,
              response |->
                  AgentResponse("answer",
                                <<TableData(data.columns, data.rows)>>,
                                <<detect_visualization(data.columns,
                                                       data.rows,
                                                       query_text)>>)]

\* the model's reply to the SQL prompt: a query, UNSUPPORTED_REQUEST, or a
\* text json.loads rejects
LlmReplies == {"sql", "unsupported", "unparseable"}

\* _execute_generated_query without the test of "error" in result
_execute_generated_query_no_error_test(query_text, m, llm, data, t) ==
    IF llm = "unparseable"
    THEN [session |-> m, response |-> AgentResponse("error", << >>, << >>)]
    ELSE IF llm = "unsupported"
    THEN [session |-> m, response |-> AgentResponse("notice", << >>, << >>)]
    ELSE StoreAndRespond(query_text, m, data, t)

_execute_generated_query(query_text, m, llm, data, t) ==
    IF llm = "unparseable"
    THEN [session |-> m, response |-> AgentResponse("error", << >>, << >>)]
    ELSE IF llm = "unsupported"
    THEN [session |-> m, response |-> AgentResponse("notice", << >>, << >>)]
    ELSE IF data.kind = "error"
    THEN [session |-> m, response |-> AgentResponse("error", << >>, << >>)]
    ELSE StoreAndRespond(query_text, m, data, t)

_execute_fixed_query(query_text, m, data, t) ==
    IF data.kind = "error"
    THEN [session |-> m, response |-> AgentResponse("error", << >>, << >>)]
    ELSE StoreAndRespond(query_text, m, data, t)

\* str(r[i]) of the cells
Str(val) == IF val = "n1" THEN "s1" ELSE val

Orderings(S) ==
    {seq \in [1..Cardinality(S) -> S] :
        \A i, j \in 1..Cardinality(S) : i # j => seq[i] # seq[j]}

\* list(set(str(r[i]) for r in rows[:10] if r[i] is not None))[:5]: the
\* order of a set's elements is not fixed, so every order is possible
CsvUniqueValues(rows, i) ==
    LET values == {Str(rows[k][i]) :
                      k \in {k \in DOMAIN rows :
                                k <= 10 /\ rows[k][i] # NoneValue}}
    IN  {SubSeq(seq, 1, Min(5, Len(seq))) : seq \in Orderings(values)}

\* context["key_values"] of _extract_csv_result_context, for one choice of
\* the orders
CsvKeyValues(columns, rows, order) ==
    LET kept == {i \in DOMAIN columns :
                    /\ InList(columns[i], CSV_KEY_COLUMNS)
                    /\ order[i] # << >>}
    IN  [col \in {columns[i] : i \in kept} |->
            KeyValue(order[CHOOSE i \in kept :
                              /\ columns[i] = col
                              /\ \A j \in kept : j > i => columns[j] # col])]

\* the contexts _extract_csv_result_context can return for what the code
\* returned: None, a DataFrame or a scalar
_extract_csv_result_context(data) ==
    IF data.kind = "none" THEN {<< >>}
    ELSE IF data.kind = "scalar"
    THEN {<< [type |-> "single_result",
              values |-> (<<"result">> :> data.value)] >>}
    ELSE IF Len(data.rows) = 0 THEN {<< >>}
    ELSE IF Len(data.rows) = 1
    THEN {<< [type |-> "single_result",
              values |-> DictOf(data.columns, data.rows[1])] >>}
    ELSE {IF DOMAIN CsvKeyValues(data.columns, data.rows, order) = {}
          THEN << >>
          ELSE << [type |-> "multi_result",
                   count |-> Len(data.rows),
                   key_values |-> CsvKeyValues(data.columns, data.rows,
                                               order)] >> :
            order \in {o \in [DOMAIN data.columns ->
                                 UNION {CsvUniqueValues(data.rows, i) :
                                           i \in DOMAIN data.columns}] :
                          \A i \in DOMAIN data.columns :
                              o[i] \in CsvUniqueValues(data.rows, i)}}

\* the try block of run_csv_agent after the model's reply, for one of the
\* contexts: _execute_pandas_code raised, or returned
CsvExecute(query, m, data, context, t) ==
    IF data.kind = "error"
    THEN [session |-> m, response |-> AgentResponse("error", << >>, << >>)]
    ELSE LET memory == IF context # << >>
                       THEN set_last_result_context(m, context[1], t)
                       ELSE m
         IN  IF data.kind = "rows"
             THEN [session |-> memory,
                   response |->
                       AgentResponse(
                           "answer",
                           <<TableData(data.columns, data.rows)>>,
                           <<detect_visualization(data.columns, data.rows,
                                                  query)>>)]
             ELSE [session |-> memory,
                   response |-> AgentResponse("answer", << >>, << >>)]

\* the column lists of the results: with and without a key column of either
\* agent
ExecColumns ==
    {<< <<"count">> >>,
     << <<"Vendor", " ", "Name">> >>,
     << <<"Vendor", " ", "Name">>, <<"count">> >>,
     << <<"zone", "_", "name">>, <<"count">> >>}
ExecCells == {"a", NoneValue}

ErrorResult == [kind |-> "error", columns |-> << >>, rows |-> << >>]

\* up to MaxResultRows rows: the first row, then rows equal to it or to
\* OtherRow of it
TableResults ==
    UNION {{[kind |-> "rows",
             columns |-> columns,
             rows |-> RowsOf(n, first,
                             IF varied THEN OtherRow(first) ELSE first)] :
               first \in [DOMAIN columns -> ExecCells],
               varied \in BOOLEAN,
               n \in 0..MaxResultRows} : columns \in ExecColumns}

SqlResults == {ErrorResult} \cup TableResults

CsvResults ==
    SqlResults \cup {[kind |-> "none"], [kind |-> "scalar", value |-> "a"]}

ExecQueries == {<<"trend">>}

\* the queries in which CHECK 2 of the agent finds no ambiguous term
SqlPlainQueries ==
    {query \in ExecQueries : detect_sql_disambiguation(query) = None}
CsvPlainQueries ==
    {query \in ExecQueries : detect_csv_disambiguation(query) = None}

\* the normal flow of run_sql_agent on a registered session: the query has
\* no ambiguous term and nothing is pending
RunSqlAgent(s, query, fixed, llm, data) ==
    /\ ncalls < MaxExecutions
    /\ s \in DOMAIN sessions
    /\ ~has_pending_disambiguation(sessions[s])
    /\ query \in SqlPlainQueries
    /\ \E res \in {IF fixed
                   THEN _execute_fixed_query(
                            query, add_user(get(sessions[s], now),
                                            Len(query), now), data, now)
                   ELSE _execute_generated_query(
                            query, add_user(get(sessions[s], now),
                                            Len(query), now), llm, data,
                            now)} :
        /\ call' = [op |-> "run_sql_agent", sid |-> s]
        /\ ncalls' = ncalls + 1
        /\ request' = [query |-> query, fixed |-> fixed, llm |-> llm,
                       result |-> data]
        /\ sessions' = [sessions EXCEPT ![s] = add_ai(res.session, 7, now)]
        /\ result' = res.response
    /\ UNCHANGED <<now, nticks, cleanup_thread, thread_started, running,
                   model_response, nextOid, log>>
    /\ UNCHANGED threadVars

\* the normal flow of run_csv_agent on a registered session
RunCsvAgent(s, query, llm, data) ==
    /\ ncalls < MaxExecutions
    /\ s \in DOMAIN sessions
    /\ ~has_pending_disambiguation(sessions[s])
    /\ query \in CsvPlainQueries
    /\ \E context \in IF llm = "sql" /\ data.kind # "error"
                      THEN _extract_csv_result_context(data)
                      ELSE {<< >>} :
       \E res \in {CsvExecute(query, add_user(get(sessions[s], now),
                                              Len(query), now),
                              IF llm = "sql" THEN data ELSE ErrorResult,
                              context, now)} :
        /\ call' = [op |-> "run_csv_agent", sid |-> s]
        /\ ncalls' = ncalls + 1
        /\ request' = [query |-> query, fixed |-> FALSE, llm |-> llm,
                       result |-> data]
        /\ sessions' = [sessions EXCEPT ![s] = add_ai(res.session, 7, now)]
        /\ result' = res.response
    /\ UNCHANGED <<now, nticks, cleanup_thread, thread_started, running,
                   model_response, nextOid, log>>
    /\ UNCHANGED threadVars

InitExecute ==
    /\ StoreWithEmptySession(None)
    /\ NoCallYet
    /\ tprog = [t \in Threads |-> "none"]
    /\ tsid = [t \in Threads |-> "-"]
    /\ pc = [t \in Threads |-> "done"]
    /\ tref = [t \in Threads |-> 0]
    /\ lref = [t \in Threads |-> 0]
    /\ tmp = [t \in Threads |-> << >>]
    /\ lock = 0

NextExecute ==
    \/ \E query \in ExecQueries, fixed \in BOOLEAN, data \in SqlResults :
           RunSqlAgent("s1", query, fixed, "sql", data)
    \/ \E query \in ExecQueries, llm \in {"unsupported", "unparseable"} :
           RunSqlAgent("s1", query, FALSE, llm, ErrorResult)
    \/ \E query \in ExecQueries, data \in CsvResults :
           RunCsvAgent("s1", query, "sql", data)
    \/ \E query \in ExecQueries :
           RunCsvAgent("s1", query, "unparseable", ErrorResult)

SpecExecute == InitExecute /\ [][NextExecute]_vars

(***************************************************************************)
(* A request, step by step, beside the cleanup loop: router_node with the  *)
(* classification model asked, then run_sql_agent in its normal flow       *)
(* (router.py 230-253, langgraph_workflow.py 73-86, sql_agent.py 151-220,  *)
(* memory.py 154-181).  `with cls._lock` is three steps here: the lock is  *)
(* taken, the body runs, the lock is released.  A call of the model or of  *)
(* the collaborator is in flight from the step that sends it to the step   *)
(* that receives its answer.  tref[t] is the SessionMemory object thread t *)
(* holds; when that object is no longer registered, its fields are kept in *)
(* tmp[t].orphan of every thread that holds it.                            *)
(***************************************************************************)
\* the request threads and the thread of _cleanup_loop
RequestThreads == {1, 2}
CleanupLoopThread == 3

\* the local variables of a thread
Locals(orphan, last_route, route, next) ==
    [orphan |-> orphan, last_route |-> last_route, route |-> route,
     next |-> next]

\* memory of thread t is the object registered under its session id
HoldsRegistered(t) ==
    /\ tsid[t] \in DOMAIN sessions
    /\ sessions[tsid[t]].oid = tref[t]

\* the fields of the object thread t holds
Memory(t) ==
    IF HoldsRegistered(t) THEN sessions[tsid[t]] ELSE tmp[t].orphan[1]

\* thread t leaves m in the object it holds and mine in its local variables
Store(t, m, mine) ==
    IF HoldsRegistered(t)
    THEN /\ sessions' = [sessions EXCEPT ![tsid[t]] = m]
         /\ tmp' = [tmp EXCEPT ![t] = mine]
    ELSE /\ sessions' = sessions
         /\ tmp' = [u \in Threads |->
                       IF u = t THEN [mine EXCEPT !.orphan = <<m>>]
                       ELSE IF tref[u] = tref[t]
                       THEN [tmp[u] EXCEPT !.orphan = <<m>>]
                       ELSE tmp[u]]

\* thread t goes on to SharedMemory.get_session and to `next` after it
CallGetSession(t, next) ==
    /\ pc' = [pc EXCEPT ![t] = "rq_lock"]
    /\ tmp' = [tmp EXCEPT ![t].next = next]

\* classify_query, line 230: get_session is called; the cleanup thread is
\* alive, so _start_cleanup_thread starts none
RqStart(t) ==
    /\ pc[t] = "rq_start"
    /\ CallGetSession(t, "rq_route")
    /\ UNCHANGED <<storeVars, tprog, tsid, tref, lref, lock, hist_id,
                   next_hid>>

\* memory.py 178: cls._lock is taken
RqLock(t) ==
    /\ pc[t] = "rq_lock"
    /\ lock = 0
    /\ lock' = t
    /\ Goto(t, "rq_get")
    /\ UNCHANGED <<storeVars, tprog, tsid, tref, lref, tmp, hist_id,
                   next_hid>>

\* memory.py 179-181: the session is looked up, and created when absent
RqGet(t) ==
    /\ pc[t] = "rq_get"
    /\ IF tsid[t] \in DOMAIN sessions
       THEN UNCHANGED <<sessions, nextOid, log, hist_id, next_hid>>
       ELSE /\ sessions' = (tsid[t] :> SessionMemory(nextOid, now)) @@ sessions
            /\ nextOid' = nextOid + 1
            /\ log' = [log EXCEPT ![tsid[t]] = << >>]
            /\ hist_id' = [hist_id EXCEPT ![tsid[t]] = next_hid]
            /\ next_hid' = next_hid + 1
    /\ tref' = [tref EXCEPT ![t] = sessions'[tsid[t]].oid]
    /\ tmp' = [tmp EXCEPT ![t].orphan = << >>]
    /\ Goto(t, "rq_unlock")
    /\ UNCHANGED <<now, nticks, cleanup_thread, thread_started, running,
                   callVars>>
    /\ UNCHANGED <<tprog, tsid, lref, lock>>

\* the lock is kept when get_session returns
RqUnlockKeepsLock(t) ==
    /\ pc[t] = "rq_unlock"
    /\ Goto(t, tmp[t].next)
    /\ UNCHANGED <<storeVars, tprog, tsid, tref, lref, tmp, lock, hist_id,
                   next_hid>>

\* the `with` block is left: the lock is released and get_session returns
RqUnlock(t) ==
    /\ pc[t] = "rq_unlock"
    /\ lock' = 0
    /\ Goto(t, tmp[t].next)
    /\ UNCHANGED <<storeVars, tprog, tsid, tref, lref, tmp, hist_id,
                   next_hid>>

\* router.py 231: last_route = memory.get_route()
RqRoute(t) ==
    /\ pc[t] = "rq_route"
    /\ tmp' = [tmp EXCEPT ![t].last_route = get_route(Memory(t))]
    /\ Goto(t, "rq_messages")
    /\ UNCHANGED <<storeVars, tprog, tsid, tref, lref, lock, hist_id,
                   next_hid>>

\* router.py 232: messages = memory.get_messages()
RqMessages(t) ==
    /\ pc[t] = "rq_messages"
    /\ Store(t, get_messages(Memory(t), now), tmp[t])
    /\ Goto(t, "rq_invoke")
    /\ UNCHANGED <<now, nticks, cleanup_thread, thread_started, running,
                   callVars, nextOid, log>>
    /\ UNCHANGED <<tprog, tsid, tref, lref, lock, hist_id, next_hid>>

\* router.py 250: router_model.invoke is called
RqInvoke(t) ==
    /\ pc[t] = "rq_invoke"
    /\ Goto(t, "rq_inflight")
    /\ UNCHANGED <<storeVars, tprog, tsid, tref, lref, tmp, lock, hist_id,
                   next_hid>>

\* router.py 250-290 and langgraph_workflow.py 74-80: the model answers
\* with a route; out_of_scope ends the request, sql is stored after another
\* get_session
RqClassified(t, route) ==
    /\ pc[t] = "rq_inflight"
    /\ IF route = "out_of_scope"
       THEN /\ Goto(t, "done")
            /\ tmp' = [tmp EXCEPT ![t].route = route]
       ELSE /\ pc' = [pc EXCEPT ![t] = "rq_lock"]
            /\ tmp' = [tmp EXCEPT ![t].route = route,
                                  ![t].next = "rq_set_route"]
    /\ UNCHANGED <<storeVars, tprog, tsid, tref, lref, lock, hist_id,
                   next_hid>>

\* langgraph_workflow.py 80: memory.set_route(route), then run_sql_agent
\* calls get_session (sql_agent.py 151)
RqSetRoute(t) ==
    /\ pc[t] = "rq_set_route"
    /\ Store(t, set_route(Memory(t), tmp[t].route, now),
             [tmp[t] EXCEPT !.next = "ag_get"])
    /\ Goto(t, "rq_lock")
    /\ UNCHANGED <<now, nticks, cleanup_thread, thread_started, running,
                   callVars, nextOid, log>>
    /\ UNCHANGED <<tprog, tsid, tref, lref, lock, hist_id, next_hid>>

\* sql_agent.py 152: history = memory.get()
AgGet(t) ==
    /\ pc[t] = "ag_get"
    /\ Store(t, get(Memory(t), now), tmp[t])
    /\ Goto(t, "ag_add_user")
    /\ UNCHANGED <<now, nticks, cleanup_thread, thread_started, running,
                   callVars, nextOid, log>>
    /\ UNCHANGED <<tprog, tsid, tref, lref, lock, hist_id, next_hid>>

\* sql_agent.py 207: memory.add_user(query_text); nothing is pending and
\* the query holds no ambiguous term
AgAddUser(t) ==
    /\ pc[t] = "ag_add_user"
    /\ Store(t, add_user(Memory(t), TextOf(t), now), tmp[t])
    /\ Goto(t, "ag_invoke")
    /\ UNCHANGED <<now, nticks, cleanup_thread, thread_started, running,
                   callVars, nextOid, log>>
    /\ UNCHANGED <<tprog, tsid, tref, lref, lock, hist_id, next_hid>>

\* sql_agent.py 290: the collaborator is called
AgInvoke(t) ==
    /\ pc[t] = "ag_invoke"
    /\ Goto(t, "ag_inflight")
    /\ UNCHANGED <<storeVars, tprog, tsid, tref, lref, tmp, lock, hist_id,
                   next_hid>>

\* sql_agent.py 317-319 and 218: the collaborator's result is in, its
\* context is stored when it has one, and the answer is appended
AgAnswered(t, outcome) ==
    /\ pc[t] = "ag_inflight"
    /\ Store(t, Execute(Memory(t), outcome, now), tmp[t])
    /\ Goto(t, "done")
    /\ UNCHANGED <<now, nticks, cleanup_thread, thread_started, running,
                   callVars, nextOid, log>>
    /\ UNCHANGED <<tprog, tsid, tref, lref, lock, hist_id, next_hid>>

\* memory.py 164: the cleanup loop wakes up and takes cls._lock
CuLock(t) ==
    /\ pc[t] = "cu_lock"
    /\ lock = 0
    /\ lock' = t
    /\ Goto(t, "cu_sweep")
    /\ UNCHANGED <<storeVars, tprog, tsid, tref, lref, tmp, hist_id,
                   next_hid>>

\* memory.py 165-170: the expired sessions are deleted from _sessions; the
\* threads that hold one of them keep the object
CuSweep(t) ==
    /\ pc[t] = "cu_sweep"
    /\ sessions' = [sid \in (DOMAIN sessions) \ Expired(now) |-> sessions[sid]]
    /\ log' = [sid \in SessionIds |->
                  IF sid \in Expired(now) THEN << >> ELSE log[sid]]
    /\ tmp' = [u \in Threads |->
                  IF HoldsRegistered(u) /\ tsid[u] \in Expired(now)
                  THEN [tmp[u] EXCEPT !.orphan = <<sessions[tsid[u]]>>]
                  ELSE tmp[u]]
    /\ Goto(t, "cu_unlock")
    /\ UNCHANGED <<now, nticks, cleanup_thread, thread_started, running,
                   callVars, nextOid>>
    /\ UNCHANGED <<tprog, tsid, tref, lref, lock, hist_id, next_hid>>

\* the lock is released and the loop sleeps
CuUnlock(t) ==
    /\ pc[t] = "cu_unlock"
    /\ lock' = 0
    /\ Goto(t, "cu_lock")
    /\ UNCHANGED <<storeVars, tprog, tsid, tref, lref, tmp, hist_id,
                   next_hid>>

\* the session "s1" is registered and was last used at time 0; two requests
\* for it arrive, now or later, and the cleanup loop runs
InitRequest ==
    /\ StoreWithEmptySession(None)
    /\ NoCallYet
    /\ tprog = [t \in Threads |->
                   IF t \in RequestThreads THEN "request"
                   ELSE IF t = CleanupLoopThread THEN "cleanup_loop"
                   ELSE "none"]
    /\ tsid = [t \in Threads |-> IF t \in RequestThreads THEN "s1" ELSE "-"]
    /\ pc = [t \in Threads |->
                IF t \in RequestThreads THEN "rq_start"
                ELSE IF t = CleanupLoopThread THEN "cu_lock"
                ELSE "done"]
    /\ tref = [t \in Threads |-> 0]
    /\ lref = [t \in Threads |-> 0]
    /\ tmp = [t \in Threads |-> Locals(<< >>, None, "-", "-")]
    /\ lock = 0

NextRequest ==
    \/ \E t \in RequestThreads :
        \/ RqStart(t)
        \/ RqLock(t)
        \/ RqGet(t)
        \/ RqUnlock(t)
        \/ RqRoute(t)
        \/ RqMessages(t)
        \/ RqInvoke(t)
        \/ \E route \in {"sql", "out_of_scope"} : RqClassified(t, route)
        \/ RqSetRoute(t)
        \/ AgGet(t)
        \/ AgAddUser(t)
        \/ AgInvoke(t)
        \/ \E outcome \in Outcomes : AgAnswered(t, outcome)
    \/ CuLock(CleanupLoopThread)
    \/ CuSweep(CleanupLoopThread)
    \/ CuUnlock(CleanupLoopThread)
    \/ \E d \in TickDeltas : Tick(d)

SpecRequest == InitRequest /\ [][NextRequest]_vars

(***************************************************************************)
(* Claims about concurrent request threads                                 *)
(***************************************************************************)
AllReturned == \A t \in Threads : pc[t] \in {"done", "raised"}

\* C2: NThreads concurrent get_session("s1").add_user(text) calls on an empty
\* session all return normally, and when they have the history holds
\* min(MAX_MESSAGES_PER_SESSION, NThreads) turns.  (It holds under SpecAppend,
\* where the cleanup thread is alive; under SpecFirstAppends get_session can
\* raise.)
C2_ConcurrentAppendsLength ==
    /\ \A t \in Threads : pc[t] # "raised"
    /\ AllReturned =>
          Len(sessions["s1"].history) = Min(MAX_MESSAGES_PER_SESSION, NThreads)

\* under SpecAppend: all the threads have returned, more of them than the
\* cap, and a trimmed copy has replaced the list
C2_Witness ==
    /\ \A t \in Threads : pc[t] = "done"
    /\ Len(log["s1"]) = NThreads
    /\ NThreads > MAX_MESSAGES_PER_SESSION
    /\ hist_id["s1"] > 1

\* no reader sees more turns than the cap
C3_NoOverlongHistory ==
    \A s \in DOMAIN sessions :
        Len(sessions[s].history) <= MAX_MESSAGES_PER_SESSION

\* no reader sees a clear that has emptied the history and not yet reset
\* last_route
C3_NoPartialClear ==
    \A t \in Threads :
        pc[t] = "cl_route" => sessions[tsid[t]].last_route = None

\* once every call has returned, the history holds the last appends in the
\* order in which they took effect: none is lost to a concurrent trim or clear
C3_NoLostAppend ==
    AllReturned =>
        sessions["s1"].history = LastN(log["s1"], MAX_MESSAGES_PER_SESSION)

\* C3: every accessor call on a session is atomic with respect to concurrent
\* accessor calls on the same session.
C3_AccessorsAtomic ==
    /\ C3_NoOverlongHistory
    /\ C3_NoPartialClear
    /\ C3_NoLostAppend

\* C6: get_session never fails, and all the callers of one id receive the one
\* session registered under it.
C6_GetSessionNeverFails ==
    /\ \A t \in Threads : pc[t] # "raised"
    /\ \A t \in Threads :
          pc[t] = "done" =>
              /\ tsid[t] \in DOMAIN sessions
              /\ tref[t] = sessions[tsid[t]].oid
    /\ nextOid <= 1 + Cardinality(DOMAIN sessions)

\* C6 without "never fails": one session per id, the same for every caller
C6_OneSessionPerId ==
    /\ \A t \in Threads :
          pc[t] = "done" =>
              /\ tsid[t] \in DOMAIN sessions
              /\ tref[t] = sessions[tsid[t]].oid
    /\ nextOid <= 1 + Cardinality(DOMAIN sessions)

(***************************************************************************)
(* Claims about the store called by one client at a time                   *)
(***************************************************************************)
\* the step is the completion of a call of `op` on session id `s`
Returns(op, s) ==
    /\ ncalls' = ncalls + 1
    /\ call' = [op |-> op, sid |-> s]

\* C1: after every sequence of add_user / add_ai calls a session's history
\* holds at most MAX_MESSAGES_PER_SESSION turns, and they are the most
\* recently appended ones in the order they were appended.
C1_HistoryIsLastAppended ==
    \A s \in DOMAIN sessions :
        /\ Len(sessions[s].history) <= MAX_MESSAGES_PER_SESSION
        /\ sessions[s].history = LastN(log[s], MAX_MESSAGES_PER_SESSION)

\* a session with more appends than the cap: its oldest turns were evicted
C1_Witness ==
    \E s \in DOMAIN sessions :
        /\ Len(log[s]) > MAX_MESSAGES_PER_SESSION
        /\ Len(sessions[s].history) = MAX_MESSAGES_PER_SESSION
        /\ call.op \in {"add_user", "add_ai"}

C5_Accessors ==
    {"get_session", "get_route", "get_pending_disambiguation",
     "has_pending_disambiguation", "clear_pending_disambiguation",
     "get_last_result_context", "get_context_summary",
     "add_user", "add_ai", "get", "get_messages",
     "set_route", "set_pending_disambiguation", "set_last_result_context",
     "clear_session"}

\* C5: every read and every write of a session refreshes last_accessed.
C5_EveryAccessRefreshes ==
    [][\A s \in SessionIds, op \in C5_Accessors :
          (Returns(op, s) /\ s \in DOMAIN sessions')
              => sessions'[s].last_accessed = now]_vars

\* C7: clear_session on a registered session empties its history, resets
\* last_route, pending_disambiguation and last_result_context, keeps the id
\* registered and leaves every other session as it was.
C7_ClearResetsOnlyThatSession ==
    [][\A s \in SessionIds :
          (Returns("clear_session", s) /\ s \in DOMAIN sessions) =>
              /\ s \in list_sessions'
              /\ sessions'[s].history = << >>
              /\ sessions'[s].last_route = None
              /\ sessions'[s].pending_disambiguation = << >>
              /\ sessions'[s].last_result_context = << >>
              /\ DOMAIN sessions' = DOMAIN sessions
              /\ \A o \in (DOMAIN sessions) \ {s} : sessions'[o] = sessions[o]]_vars

\* clear_session has just returned for a registered session while another
\* session holds a turn
C7_Witness ==
    /\ call.op = "clear_session"
    /\ call.sid \in DOMAIN sessions
    /\ sessions[call.sid].history = << >>
    /\ \E o \in (DOMAIN sessions) \ {call.sid} : sessions[o].history # << >>

(***************************************************************************)
(* The router                                                              *)
(***************************************************************************)
\* a call of the router (router_node or get_route_for_query) on s returns
RouterReturns(s) ==
    Returns("router_node", s) \/ Returns("get_route_for_query", s)

\* C8, as stated: whenever the router has assigned a route other than
\* out_of_scope (meta included), the session's last_route is that route when
\* the router returns.
C8_EveryRouteButOutOfScopeStored ==
    (call.op \in {"router_node", "get_route_for_query"}
        /\ result.route # "out_of_scope")
    => sessions[call.sid].last_route = result.route

\* C8, amended: when the router returns one of the routes sql, csv, pdf,
\* math, the session's last_route is that route; when it returns meta, the
\* session's last_route is what it was before the call.
C8_DataRouteStoredMetaNot ==
    [][\A s \in RouterSessions :
        RouterReturns(s) =>
            /\ result'.route \in Routes
                   => sessions'[s].last_route = result'.route
            /\ result'.route = "meta"
                   => sessions'[s].last_route = Registered(s).last_route]_vars

\* the model classified the query as pdf after another route had been
\* stored, and pdf is now the stored route
C8_Witness ==
    /\ call = [op |-> "router_node", sid |-> "s1"]
    /\ ncalls = 2
    /\ model_response.kind = "object"
    /\ result.route = "pdf"
    /\ sessions["s1"].last_route = "pdf"

\* the model's answer does not parse as a JSON object, or the call failed
Unusable(response) == response.kind \in {"error", "unparseable", "not_object"}

\* the model's answer carries a route outside the closed set
CarriesOutsideRoute(response) ==
    /\ response.kind = "object"
    /\ response.route # Missing
    /\ response.route \notin ClosedRoutes

C10_ConfidenceInEnum ==
    call.op = "classify_query" =>
        result.confidence \in {"high", "medium", "low"}

\* the query holds, in any case of letters, an entry of the table
Holds(query, table) ==
    \E i \in DOMAIN query, k \in DOMAIN table : Lower(query[i]) = table[k]

\* C11: the fast path follows the order math keyword, CSV keyword, ambiguous
\* SQL term, ambiguous CSV term: classify returns the route of the first of
\* the four tables of which the query holds an entry, with confidence high.
C11_FastPathOrder ==
    call.op = "classify_query" =>
        LET q == request.query
            math == Holds(q, MATH_ROUTE_KEYWORDS)
            csvkw == Holds(q, CSV_ROUTE_KEYWORDS)
            sqlterm == Holds(q, SQL_AMBIGUOUS_TERMS)
            csvterm == Holds(q, CSV_AMBIGUOUS_TERMS)
            high(route) == /\ result.route = route
                           /\ result.confidence = "high"
                           /\ ~result.raised
        IN  /\ math => high("math")
            /\ (~math /\ csvkw) => high("csv")
            /\ (~math /\ ~csvkw /\ sqlterm) => high("sql")
            /\ (~math /\ ~csvkw /\ ~sqlterm /\ csvterm) => high("csv")

\* a query with an ambiguous SQL term and, after it, a math keyword was
\* routed to math
C11_Witness ==
    /\ call = [op |-> "classify_query", sid |-> "s1"]
    /\ request.query = <<"Quantity", "SQRT">>
    /\ result.route = "math"
    /\ result.confidence = "high"

\* the query holds an entry of one of the four fast-path tables
FastPathMatches(query) ==
    \/ Holds(query, MATH_ROUTE_KEYWORDS)
    \/ Holds(query, CSV_ROUTE_KEYWORDS)
    \/ Holds(query, SQL_AMBIGUOUS_TERMS)
    \/ Holds(query, CSV_AMBIGUOUS_TERMS)

\* sessions with and without a stored route and a history
SessionStates ==
    {[SessionMemory(1, 0) EXCEPT !.last_route = r, !.history = h] :
        r \in Routes \cup {None},
        h \in {<< >>, <<HumanMessage(7)>>, <<HumanMessage(7), AIMessage(7)>>}}

\* answers the model could have given, had it been asked
UnaskedAnswers ==
    {NoResponse,
     [kind |-> "error", route |-> "-", confidence |-> "-", reason |-> << >>],
     [kind |-> "object", route |-> "pdf", confidence |-> "high",
      reason |-> <<"uses", "a", "Pronoun">>]}

\* C12: when the query matches the fast path, classify returns without a
\* call of the classification model, and what it returns is what it returns
\* for every other session state and whatever the model would have answered.
C12_FastPathBeforeContext ==
    (call.op = "classify_query" /\ FastPathMatches(request.query)) =>
        /\ model_response = NoResponse
        /\ \A m \in SessionStates, r \in UnaskedAnswers :
               LET c == classify_query(request.query, m, r, now)
               IN  /\ ~c.raised
                   /\ c.ret.route = result.route
                   /\ c.ret.confidence = result.confidence
                   /\ c.ret.reason = result.reason

\* a fast-path query was classified on a session that held a turn and a
\* stored route of another domain
C12_Witness ==
    /\ call = [op |-> "classify_query", sid |-> "s1"]
    /\ ncalls = 2
    /\ request.query = <<"time">>
    /\ sessions["s1"].history # << >>
    /\ model_response = NoResponse
    /\ result.route = "csv"

\* the reason, a string, holds one of the six follow-up indicator words
Indicated(reason) ==
    \E i \in DOMAIN reason :
        Lower(reason[i]) \in {"follow-up", "pronoun", "refer", "previous",
                              "context", "vague"}

\* C13: when no fast-path term matches and the model answers out_of_scope,
\* classify returns last_route with confidence medium if the session has a
\* last_route and the model's reason holds a follow-up indicator word, and
\* out_of_scope if the session has no last_route or the reason holds none.
C13_FollowUpRescue ==
    (/\ call.op = "classify_query"
     /\ ~FastPathMatches(request.query)
     /\ model_response.kind = "object"
     /\ model_response.route = "out_of_scope") =>
        LET last_route == sessions[call.sid].last_route
            indicated == Indicated(model_response.reason)
        IN  /\ ~result.raised
            /\ (last_route # None /\ indicated)
                   => /\ result.route = last_route
                      /\ result.confidence = "medium"
            /\ (last_route = None \/ ~indicated)
                   => result.route = "out_of_scope"

\* the model answered out_of_scope with a reason that holds "Pronoun", on a
\* session whose last_route is sql: sql, medium
C13_Witness ==
    /\ call = [op |-> "classify_query", sid |-> "s1"]
    /\ request.query = <<"weather">>
    /\ model_response.kind = "object"
    /\ model_response.route = "out_of_scope"
    /\ model_response.reason = <<"uses", "a", "Pronoun">>
    /\ model_response.confidence = "certain"
    /\ sessions["s1"].last_route = "sql"
    /\ result.route = "sql"
    /\ result.confidence = "medium"

\* the content router.handle_meta_question builds from a history
MetaContentOf(history) ==
    LET asked == SelectSeq(history, LAMBDA msg : msg.role = "human")
    IN  IF asked = << >> THEN [kind |-> "first_question", text |-> 0]
        ELSE [kind |-> "last_question", text |-> asked[Len(asked)].content]

\* C14: a query that matches a meta pattern is terminal at the router: it is
\* routed to meta, with content built from the session's most recent user
\* turn or a first-question message, without a call of the classification
\* model, whatever the forced route, and the history is left unchanged.
C14_MetaIsTerminal ==
    [][\A s \in RouterSessions :
        (RouterReturns(s) /\ Holds(request'.query, META_PATTERNS)) =>
            /\ result'.route = "meta"
            /\ model_response' = NoResponse
            /\ result'.content = MetaContentOf(Registered(s).history)
            /\ sessions'[s].history = Registered(s).history]_vars

\* C14 at router_node alone, where it holds
C14_MetaIsTerminalAtRouterNode ==
    [][\A s \in RouterSessions :
        (Returns("router_node", s) /\ Holds(request'.query, META_PATTERNS)) =>
            /\ result'.route = "meta"
            /\ model_response' = NoResponse
            /\ result'.content = MetaContentOf(Registered(s).history)
            /\ sessions'[s].history = Registered(s).history]_vars

(***************************************************************************)
(* The disambiguator                                                       *)
(***************************************************************************)
\* pattern is a run of consecutive symbols of text
Occurs(pattern, text) ==
    \E pos \in 0..Len(text) :
        /\ pos + Len(pattern) <= Len(text)
        /\ \A i \in 1..Len(pattern) : text[pos + i] = pattern[i]

\* the term is already disambiguated in the lower-cased query q: q holds
\* the full name of one of its candidate columns, as it is or with its
\* underscores replaced by spaces
AlreadyDisambiguated(q, columns) ==
    \E k \in DOMAIN columns :
        LET name == LowerText(columns[k]) IN
        \/ Occurs(name, q)
        \/ Occurs([i \in DOMAIN name |->
                      IF name[i] = "_" THEN " " ELSE name[i]], q)

\* what detect is to return for a query, a table of terms and their columns
FirstQualifying(query, domain) ==
    LET q == LowerText(query)
        terms == TermsOf(domain)
        qualifies(k) ==
            /\ Occurs(<<terms[k]>>, q)
            /\ ~AlreadyDisambiguated(q, ColumnsOf(domain, terms[k]))
    IN  IF \E k \in DOMAIN terms : qualifies(k)
        THEN terms[CHOOSE k \in DOMAIN terms :
                       qualifies(k) /\ \A j \in 1..(k - 1) : ~qualifies(j)]
        ELSE None

\* C18: detect returns the first term, in the order of the domain's table,
\* that occurs in the lower-cased query and is not already disambiguated, and
\* none when no term qualifies; a term is already disambiguated exactly when
\* the query holds the full name of one of its candidate columns, verbatim
\* or with underscores replaced by spaces.
C18_DetectFirstQualifying ==
    /\ call.op = "detect_sql_disambiguation" =>
           result = FirstQualifying(request.query, "sql")
    /\ call.op = "detect_csv_disambiguation" =>
           result = FirstQualifying(request.query, "csv")

\* the query names a column by its full name, underscore replaced by a
\* space, and holds the bare term too: nothing is detected
C18_Witness ==
    /\ call.op = "detect_csv_disambiguation"
    /\ request.query = <<"duration", "dwell", " ", "hrs">>
    /\ result = None

\* the term occurs in q at index pos, counted from 0, whatever the case of
\* the letters
OccursAnyCaseAt(q, term, pos) ==
    /\ pos + Len(term) <= Len(q)
    /\ \A i \in 1..Len(term) : LowerSymbol(q[pos + i]) = LowerSymbol(term[i])

OccursAnyCase(q, term) == \E pos \in 0..Len(q) : OccursAnyCaseAt(q, term, pos)

FirstAnyCase(q, term) ==
    CHOOSE pos \in 0..Len(q) :
        /\ OccursAnyCaseAt(q, term, pos)
        /\ \A before \in 0..(pos - 1) : ~OccursAnyCaseAt(q, term, before)

\* C19: resolve(q, term, choice) returns a string that holds choice; if term
\* occurs in q, whatever the case, its first occurrence is replaced by
\* choice, the text before and after it is unchanged and the length is
\* len(q) - len(term) + len(choice); otherwise the result is q followed by
\* " (using choice)".
C19_ResolveReplacesFirstOccurrence ==
    call.op = "combine_query_with_disambiguation" =>
        LET q == request.query
            term == request.term
            choice == request.choice
        IN  /\ Occurs(choice, result)
            /\ OccursAnyCase(q, term) =>
                   LET pos == FirstAnyCase(q, term) IN
                   /\ result = SubSeq(q, 1, pos) \o choice
                                 \o SubSeq(q, pos + Len(term) + 1, Len(q))
                   /\ Len(result) = Len(q) - Len(term) + Len(choice)
            /\ ~OccursAnyCase(q, term) =>
                   result = q \o <<" ", "(", "u", "s", "i", "n", "g", " ">>
                              \o choice \o <<")">>

\* C20: resolve is total and its result is never empty and never the
\* original query again, whatever the reply.
C20_ResolveMoreSpecific ==
    call.op = "combine_query_with_disambiguation" =>
        /\ result # << >>
        /\ result # request.query

(***************************************************************************)
(* The disambiguation dialogue                                             *)
(***************************************************************************)
\* the pending disambiguation of session s: << >> when there is none
PendingOf(s) ==
    IF s \in DOMAIN sessions THEN sessions[s].pending_disambiguation
    ELSE << >>

\* the collaborator that asks about a term
Asker(term) ==
    IF \E k \in DOMAIN SQL_AMBIGUOUS_TERMS : SQL_AMBIGUOUS_TERMS[k] = term
    THEN "sql" ELSE "csv"

\* a turn of session s is taken in this step
TurnOf(s) ==
    /\ ncalls' = ncalls + 1
    /\ call'.op = "run_workflow"
    /\ call'.sid = s

\* C15: while a session awaits a choice, its next input is taken as the
\* choice and resolves the pending disambiguation: the classification model
\* is not asked, the input goes to the collaborator that asked and to no
\* other, and the query run is the original query with the choice in it.
C15_ReplyIsTheChoice ==
    [][\A s \in RouterSessions :
        (PendingOf(s) # << >> /\ TurnOf(s)) =>
            LET pending == PendingOf(s)[1] IN
            /\ PendingOf(s)' = << >>
            /\ model_response' = NoResponse
            /\ result'.route = Asker(pending.ambiguous_term)
            /\ result'.executed # << >>
            /\ Occurs(request'.query, result'.executed[1])]_vars

\* C17: after a turn of a session, its pending disambiguation is present
\* exactly when that turn asked the user to choose a column meaning.
C17_PendingIffLastTurnAsked ==
    \A s \in RouterSessions :
        (call.op = "run_workflow" /\ call.sid = s) =>
            (PendingOf(s) # << >> <=> result.needs_disambiguation)

\* the threads that took the pending disambiguation and resolve it
Resolvers == {t \in Threads : tmp[t] # << >>}

\* C16: a pending disambiguation that is set is consumed exactly once, also
\* by duplicate requests running concurrently: no request fails, no two
\* requests resolve it, and once all have returned one of them has.
C16_PendingConsumedOnce ==
    /\ \A t \in Threads : pc[t] # "raised"
    /\ Cardinality(Resolvers) <= 1
    /\ AllReturned => Cardinality(Resolvers) = 1

(***************************************************************************)
(* The visualization detector                                              *)
(***************************************************************************)
\* an entry of a vocabulary occurs in the lower-cased text
Matches(text, vocabulary) ==
    \E k \in DOMAIN vocabulary : Occurs(vocabulary[k], LowerText(text))

\* the name of a column is time-related: it holds an entry of the time
\* vocabulary, as it is written or with its underscores read as spaces
TimeRelated(name) ==
    \/ Matches(name, TIME_COLUMNS)
    \/ Matches([i \in DOMAIN name |-> IF name[i] = "_" THEN " " ELSE name[i]],
               TIME_COLUMNS)

\* the result is a category and a value: in every row the first cell is a
\* string that is no number, the second a number, and no other is a number
CategoryAndValue(columns, rows) ==
    /\ Len(columns) >= 2
    /\ \A i \in DOMAIN rows :
        /\ rows[i][1] \in Strings \ NumericStrings
        /\ rows[i][2] \in Numbers \cup NumericStrings
        /\ \A j \in 3..Len(rows[i]) :
               rows[i][j] \notin Numbers \cup NumericStrings

\* C24: for a result of at least 2 rows that is a category and a value,
\* when the query holds no raw-data keyword, the chart is a line when the
\* name of the first column is time-related, and otherwise a pie for at
\* most 6 rows, a bar for 7 to 10 rows, a horizontal bar for more.
C24_CategoryValueChart ==
    (/\ call.op = "detect_visualization"
     /\ Len(request.rows) >= 2
     /\ CategoryAndValue(request.columns, request.rows)
     /\ ~Matches(request.query, NO_VISUALIZATION_KEYWORDS)) =>
        /\ result.should_visualize
        /\ result.chart_type =
               IF TimeRelated(request.columns[1]) THEN "line"
               ELSE IF Len(request.rows) <= 6 THEN "pie"
               ELSE IF Len(request.rows) <= 10 THEN "bar"
               ELSE "horizontal_bar"

Executed == call.op \in {"run_sql_agent", "run_csv_agent"}

\* the collaborator was asked and returned a result that is not an error
SucceededWith ==
    /\ Executed
    /\ request.fixed \/ request.llm = "sql"
    /\ request.result.kind # "error"

\* the contexts the agent that ran can extract from the result of the request
ExtractedContexts ==
    IF call.op = "run_sql_agent"
    THEN {_extract_result_context(request.result)}
    ELSE _extract_csv_result_context(request.result)

\* C21: after every successful non-error collaborator result the session's
\* last_result_context is the context extracted from that result alone,
\* absent when the result is empty or has no key column: it is never left
\* over from an earlier result.
C21_ContextIsOfLastResult ==
    SucceededWith =>
        sessions["s1"].last_result_context \in ExtractedContexts

\* the collaborator's query execution returned an error
FailedExecution ==
    /\ Executed
    /\ request.fixed \/ request.llm = "sql"
    /\ request.result.kind = "error"

\* C22: when a collaborator's query execution returns an error, the
\* session's last_result_context is left unchanged and the response carries
\* no visualization and no table.
C22_ErrorResultLeavesContext ==
    [][FailedExecution' =>
          /\ sessions'["s1"].last_result_context =
                 sessions["s1"].last_result_context
          /\ result'.kind = "error"
          /\ result'.table = << >>
          /\ result'.visualization = << >>]_vars

\* an execution failed in a session that holds the context of an earlier
\* result
C22_Witness ==
    /\ FailedExecution
    /\ sessions["s1"].last_result_context # << >>
    /\ result.table = << >>
    /\ result.visualization = << >>

(***************************************************************************)
(* The disambiguation dialogue, one reply at a time                        *)
(***************************************************************************)
\* the turn taken in this step of session s reaches the SQL or the CSV agent
AgentTurnOf(s) ==
    /\ TurnOf(s)
    /\ result'.route \in {"sql", "csv"}
    /\ ~result'.raised

\* C26: a call of the SQL or CSV collaborator made while a disambiguation
\* is pending ends with none pending, whatever the reply is, and does not
\* ask again within that call, even if the resolved query still holds an
\* ambiguous term.
C26_OneReplyReturnsToNormal ==
    [][\A s \in RouterSessions :
        (PendingOf(s) # << >> /\ AgentTurnOf(s)) =>
            /\ PendingOf(s)' = << >>
            /\ ~result'.needs_disambiguation
            /\ result'.executed # << >>]_vars

\* the SQL agent ran a query that still holds one of its ambiguous terms,
\* which it does only for a resolved query, and nothing is pending
C26_Witness ==
    /\ call.op = "run_workflow"
    /\ result.route = "sql"
    /\ ~result.raised
    /\ result.executed # << >>
    /\ detect_sql_disambiguation(result.executed[1]) # None
    /\ ~result.needs_disambiguation
    /\ PendingOf("s1") = << >>

\* C29: a pending disambiguation recorded by one domain's collaborator is
\* consumed only by that domain's collaborator, whatever route the next
\* query of the session is given.
C29_PendingConsumedByItsAsker ==
    [][\A s \in RouterSessions :
        (PendingOf(s) # << >> /\ TurnOf(s) /\ PendingOf(s)' = << >>) =>
            result'.route = Asker(PendingOf(s)[1].ambiguous_term)]_vars

(***************************************************************************)
(* The values of last_route                                                *)
(***************************************************************************)
\* a call of the router on s returns
AnyRouterReturns(s) ==
    \/ Returns("classify_query", s)
    \/ Returns("get_route_for_query", s)
    \/ Returns("router_node", s)

\* C27: in every reachable state a session's last_route is absent or one of
\* sql, csv, pdf, math; a query routed to out_of_scope or to meta leaves
\* last_route as it was, and a forced route outside the four is not stored.
\* the stored routes are absent or data routes
DataRoutesStored(store) ==
    \A s \in DOMAIN store : store[s].last_route \in Routes \cup {None}

C27_LastRouteIsADataRoute ==
    [][/\ DataRoutesStored(sessions)
       /\ DataRoutesStored(sessions')
       /\ \A s \in RouterSessions :
            (AnyRouterReturns(s)
                /\ result'.route \in {"out_of_scope", "meta"}) =>
                sessions'[s].last_route = Registered(s).last_route]_vars

\* the router was given a forced route outside the four and the model's
\* answer carried no usable route: the query is out of scope and the route
\* stored before is still the stored one
C27_Witness ==
    /\ call = [op |-> "router_node", sid |-> "s1"]
    /\ request.forced = "bogus"
    /\ model_response.kind = "object"
    /\ model_response.route = "meta"
    /\ result.route = "out_of_scope"
    /\ sessions["s1"].last_route = "sql"

(***************************************************************************)
(* The cleanup threads                                                     *)
(***************************************************************************)
\* the cleanup threads alive: a started thread loops while _running holds,
\* and nothing resets _running
CleanupThreadsAlive == IF running THEN thread_started ELSE {}

\* C30: at most one background cleanup thread is alive at any time, however
\* many threads call get_session concurrently.
C30_OneCleanupThread == Cardinality(CleanupThreadsAlive) <= 1

(***************************************************************************)
(* Requests beside the cleanup loop                                        *)
(***************************************************************************)
\* the call of the classification model or of the collaborator made by
\* thread t is in flight
InFlight(t) == pc[t] \in {"rq_inflight", "ag_inflight"}

InRequest(t) ==
    /\ tprog[t] = "request"
    /\ tref[t] # 0
    /\ pc[t] \notin {"rq_start", "rq_lock", "rq_get", "done"}

\* C28: under any interleaving of a request with the cleanup cycle, the
\* session object the request is reading or writing is the one registered
\* under its id, so its writes are seen by a later get_session.
C28_HeldSessionIsRegistered ==
    \A t \in RequestThreads : InRequest(t) => HoldsRegistered(t)

====
